---- MODULE Spec2Model ----
(***************************************************************************)
(* Translation relay of ykmolumo/livetranslationw.                         *)
(*                                                                         *)
(* src/unnamed/part_003 holds two Socket.IO servers:                       *)
(*   lines   1-384  the server built on `rooms` / `userSessions`           *)
(*   lines 386-743  the server built on `activeRooms` / `userSessions`     *)
(* Both keep a room registry and a session table and relay utterances.     *)
(* The variable `server` records which of the two programs is running; the *)
(* registry and the session table have the same shape in both, so they     *)
(* share the variables `rooms` and `userSessions`.                         *)
(*                                                                         *)
(* A JavaScript handler runs without interruption until it awaits network  *)
(* I/O, so one action is one handler run up to its next pending call of    *)
(* translateWithFreeServices (or to its end).  The awaits inside that call *)
(* read and write no shared state; in the relay the call settles in one    *)
(* step, whose input is the way each of its services would answer.  The    *)
(* variable `call` follows one call service by service.                    *)
(*                                                                         *)
(* src/public/performance-optimizer.js is the page's PerformanceOptimizer: *)
(* its translation cache is the variable `translationCache`, written by    *)
(* cacheTranslation, getCachedTranslation, translateSingle, cleanupCache   *)
(* and the timers of preloadTranslations.  src/public/app.js is the page:  *)
(* the messages its translateText emits wait in `wire` until the server    *)
(* handles them.  A function made by createDebouncedTranslation is the     *)
(* variable `debounced`; `calls` and `applied` record its calls and the    *)
(* calls of the function it wraps.                                         *)
(***************************************************************************)
EXTENDS Integers, Sequences, FiniteSets, TLC

(* ------------------------------ bounds --------------------------------- *)
\* Socket ids, in the order broadcasts are written to the log of a step.
ConnSeq == <<"c1", "c2", "c3">>
Conns == {ConnSeq[i] : i \in 1..Len(ConnSeq)}
RoomIds == {"R1", "R2"}
Langs == {"en", "es"}
Texts == {"Hello"}
\* Number of relay handlers (live-speech / conversation-message) in flight.
MaxTasks == 1
\* Last value of the wall clock (new Date(), Date.now()).
MaxTime == 2

Undefined == "undefined"

VARIABLES
    server,        \* "rooms" (part_003:1-384) or "activeRooms" (part_003:386-743)
    now,           \* wall clock read by new Date()
    sockets,       \* socket id -> "new" | "open" | "closed"
    joined,        \* socket id -> Socket.IO rooms joined with socket.join()
    rooms,         \* registry: room id -> [users, createdAt]   (rooms / activeRooms)
    userSessions,  \* session table: socket id -> [roomId, userName, userLanguage]
    tasks,         \* relay handlers in flight (or just returned), by slot
    translated,    \* history: the <<text, from, to>> a relay translation succeeded for
    out,           \* events emitted by the last step, in emission order
    call,          \* a call of translateWithFreeServices followed service by service
    translationCache,  \* PerformanceOptimizer.translationCache (browser)
    maxCacheSize,      \* PerformanceOptimizer.maxCacheSize
    timers,            \* setTimeout callbacks of preloadTranslations still to run
    returned,          \* what the last call of a cache method returned
    fetches,           \* translateSingle calls awaiting the answer of /api/translate
    wire,              \* socket id -> messages the page has emitted, not yet handled
    debounced,         \* closure of createDebouncedTranslation: delay, timeoutId
    calls,             \* history: the calls of the debounced function
    applied            \* history: the calls of translationFunction

\* The state of the two servers.
serverVars == <<server, sockets, joined, rooms, userSessions, tasks, translated, out>>
\* The state of a function returned by createDebouncedTranslation.
debounceVars == <<debounced, calls, applied>>
\* The state of the page's PerformanceOptimizer.
clientVars == <<translationCache, maxCacheSize, timers, returned, fetches, wire,
                debounceVars>>

vars == <<server, now, sockets, joined, rooms, userSessions, tasks, translated, out,
          call, translationCache, maxCacheSize, timers, returned, fetches, wire,
          debounced, calls, applied>>

(* ------------------------- JavaScript Map ------------------------------ *)
\* A Map is kept as the sequence of its entries in insertion order; an entry
\* of a room's user map is [id, userName, userLanguage].
RECURSIVE MapIndex(_, _)
MapIndex(m, id) ==
    IF m = <<>> THEN 0
    ELSE IF m[Len(m)].id = id THEN Len(m)
    ELSE MapIndex(SubSeq(m, 1, Len(m) - 1), id)

MapHas(m, id) == MapIndex(m, id) # 0
MapGet(m, id) == m[MapIndex(m, id)]
MapKeys(m) == {m[i].id : i \in 1..Len(m)}

\* Mutant of MapDelete: the entry is not removed.
MapDeleteKeepsEntry(m, id) == m

\* Map.prototype.delete: the entry goes, the order of the others stays.
MapDelete(m, id) ==
    LET p == MapIndex(m, id)
    IN  IF p = 0 THEN m ELSE SubSeq(m, 1, p - 1) \o SubSeq(m, p + 1, Len(m))

\* Mutant of MapSet: a key that is present keeps its old value.
MapSetIfAbsent(m, e) == IF MapHas(m, e.id) THEN m ELSE Append(m, e)

\* Map.prototype.set: an existing key keeps its position, a new key is appended.
MapSet(m, e) ==
    LET p == MapIndex(m, e.id)
    IN  IF p = 0 THEN Append(m, e) ELSE [m EXCEPT ![p] = e]

(* --------------------------- Socket.IO --------------------------------- *)
\* Mutant of InRoom: a Socket.IO room that holds every socket.
InRoomHoldsAll(j, r) == Conns

\* Sockets in Socket.IO room r according to the membership function j.
InRoom(j, r) == {c \in Conns : r \in j[c]}

RECURSIVE EmitTo(_, _, _)
\* One copy of event ev for every socket of `recips`, in ConnSeq order.
EmitTo(recips, ev, i) ==
    IF i > Len(ConnSeq) THEN <<>>
    ELSE (IF ConnSeq[i] \in recips
          THEN <<[ev EXCEPT !.to = ConnSeq[i]]>>
          ELSE <<>>) \o EmitTo(recips, ev, i + 1)

\* Mutant of SocketTo: io.emit(...), to every socket but the sender.
SocketToEveryone(j, c, r, ev) == EmitTo(Conns \ {c}, ev, 1)

\* socket.to(r).emit(...): every socket in room r except the sender.
SocketTo(j, c, r, ev) == EmitTo(InRoom(j, r) \ {c}, ev, 1)

(* ----------------------------- tasks ----------------------------------- *)
IdleTask == [pc |-> "idle"]

\* A room's user Map lost its entry at position p (key c).  A running
\* iterator that is past p moves back by one; a handler holding that entry's
\* object keeps the object, which is no longer the one in the Map.
TasksAfterDelete(ts, r, p, c) ==
    [t \in DOMAIN ts |->
        IF ts[t].pc = "await" /\ ts[t].roomId = r /\ ~ts[t].detached /\ p > 0
        THEN [ts[t] EXCEPT
                !.idx = IF p <= @ THEN @ - 1 ELSE @,
                !.curLive = IF ts[t].cur.id = c THEN FALSE ELSE @,
                !.stable = FALSE]
        ELSE ts[t]]

\* Map.set stored a new object under key c of room r.
TasksAfterSet(ts, r, c) ==
    [t \in DOMAIN ts |->
        IF ts[t].pc = "await" /\ ts[t].roomId = r /\ ~ts[t].detached
        THEN [ts[t] EXCEPT !.curLive = IF ts[t].cur.id = c THEN FALSE ELSE @,
                           !.stable = FALSE]
        ELSE ts[t]]

\* Room r left the registry: handlers iterating its Map keep the orphaned
\* object, which is empty and which nothing can reach any more.
TasksAfterRoomDelete(ts, r) ==
    [t \in DOMAIN ts |->
        IF ts[t].pc = "await" /\ ts[t].roomId = r /\ ~ts[t].detached
        THEN [ts[t] EXCEPT !.detached = TRUE, !.idx = 0, !.curLive = FALSE,
                           !.stable = FALSE]
        ELSE ts[t]]

\* userSessions.set / userSessions.delete put another object (or none)
\* under key c: handlers keep the session object they read.
TasksAfterSessionReplace(ts, c) ==
    [t \in DOMAIN ts |->
        IF ts[t].pc = "await" /\ ts[t].socket = c
        THEN [ts[t] EXCEPT !.sessLive = FALSE]
        ELSE ts[t]]

(* ------------------------------ Init ----------------------------------- *)
\* No call of translateWithFreeServices is being followed.
IdleCall == [pc |-> "idle"]

\* No cache method has been called yet.
NoReturn == [method |-> "none"]

\* let timeoutId; and a timer that is not pending (never set, cleared, run).
NoTimer == [pending |-> FALSE, call |-> 0, args |-> Undefined, due |-> 0]

\* createDebouncedTranslation has not been called: the repository never
\* calls it.
NoDebounce ==
    /\ debounced = [delay |-> 0, timeoutId |-> NoTimer]
    /\ calls = <<>>
    /\ applied = <<>>

\* No page is open: there is no PerformanceOptimizer.
NoClient ==
    /\ translationCache = <<>>
    /\ maxCacheSize = 0
    /\ timers = {}
    /\ returned = NoReturn
    /\ fetches = {}
    /\ wire = [c \in Conns |-> <<>>]
    /\ NoDebounce

Init ==
    /\ server \in {"rooms", "activeRooms"}
    /\ now = 0
    /\ sockets = [c \in Conns |-> "new"]
    /\ joined = [c \in Conns |-> {}]
    /\ rooms = <<>>
    /\ userSessions = <<>>
    /\ tasks = [t \in 1..MaxTasks |-> IdleTask]
    /\ translated = {}
    /\ out = <<>>
    /\ call = IdleCall
    /\ NoClient

\* A handler that has returned is shown as "done" in the state its last step
\* leads to; its frame is gone when the next event is handled.
Running == [t \in DOMAIN tasks |-> IF tasks[t].pc = "done" THEN IdleTask ELSE tasks[t]]

\* Time passes.
Tick ==
    /\ now < MaxTime
    /\ now' = now + 1
    /\ out' = <<>>
    /\ tasks' = Running
    /\ UNCHANGED <<server, sockets, joined, rooms, userSessions, translated>>
    /\ UNCHANGED <<call, clientVars>>

\* io.on('connection'): a new socket; only the handlers are registered.
Connection(c) ==
    /\ sockets[c] = "new"
    /\ sockets' = [sockets EXCEPT ![c] = "open"]
    /\ out' = <<>>
    /\ tasks' = Running
    /\ UNCHANGED <<server, now, joined, rooms, userSessions, translated>>
    /\ UNCHANGED <<call, clientVars>>

(* ---------------- registry helpers on the function `rooms` ------------- *)
\* Map.delete on the registry / session table.
Remove(f, k) == [x \in DOMAIN f \ {k} |-> f[x]]
\* Map.set on the registry / session table.
Put(f, k, v) == [x \in DOMAIN f \cup {k} |-> IF x = k THEN v ELSE f[x]]

UserList(users) ==
    [i \in 1..Len(users) |->
        [id |-> users[i].id, name |-> users[i].userName,
         language |-> users[i].userLanguage]]

(* ----------- server `rooms`: socket.on('join-room') -------------------- *)
\* Mutant of JoinRoomRooms: the user-left of the previous room is emitted
\* after the user-joined of the new one.
JoinRoomNotifiesJoinFirst(c, roomId, userName, userLanguage) ==
    /\ server = "rooms"
    /\ sockets[c] = "open"
    /\ LET hasPrev == c \in DOMAIN userSessions
           prev == userSessions[c]
           prevHasRoom == hasPrev /\ prev.roomId \in DOMAIN rooms
           \* socket.leave(prevSession.roomId)
           j1 == IF hasPrev THEN [joined EXCEPT ![c] = @ \ {prev.roomId}] ELSE joined
           \* room.users.delete(socket.id)
           p == IF prevHasRoom THEN MapIndex(rooms[prev.roomId].users, c) ELSE 0
           users1 == IF prevHasRoom THEN MapDelete(rooms[prev.roomId].users, c) ELSE <<>>
           left == IF prevHasRoom
                   THEN SocketTo(j1, c, prev.roomId,
                                 [to |-> c, type |-> "user-left",
                                  userName |-> prev.userName, userId |-> c])
                   ELSE <<>>
           \* if (room.users.size === 0) rooms.delete(prevSession.roomId)
           emptied == prevHasRoom /\ Len(users1) = 0
           rooms1 == IF ~prevHasRoom THEN rooms
                     ELSE IF emptied THEN Remove(rooms, prev.roomId)
                     ELSE [rooms EXCEPT ![prev.roomId].users = users1]
           ts1 == IF ~prevHasRoom THEN Running
                  ELSE IF emptied
                       THEN TasksAfterRoomDelete(Running, prev.roomId)
                       ELSE TasksAfterDelete(Running, prev.roomId, p, c)
           \* socket.join(roomId)
           j2 == [j1 EXCEPT ![c] = @ \cup {roomId}]
           \* if (!rooms.has(roomId)) rooms.set(roomId, {...})
           rooms2 == IF roomId \in DOMAIN rooms1 THEN rooms1
                     ELSE Put(rooms1, roomId, [users |-> <<>>, createdAt |-> now])
           \* room.users.set(socket.id, userInfo)
           users2 == MapSet(rooms2[roomId].users,
                            [id |-> c, userName |-> userName,
                             userLanguage |-> userLanguage])
           rooms3 == [rooms2 EXCEPT ![roomId].users = users2]
           ts2 == TasksAfterSessionReplace(TasksAfterSet(ts1, roomId, c), c)
       IN  /\ joined' = j2
           /\ rooms' = rooms3
           /\ userSessions' = Put(userSessions, c,
                                  [roomId |-> roomId, userName |-> userName,
                                   userLanguage |-> userLanguage])
           /\ tasks' = ts2
           /\ out' = <<[to |-> c, type |-> "room-joined", roomId |-> roomId,
                         users |-> UserList(users2)]>>
                     \o SocketTo(j2, c, roomId,
                                 [to |-> c, type |-> "user-joined",
                                  userName |-> userName,
                                  userLanguage |-> userLanguage, userId |-> c])
                     \o left
    /\ UNCHANGED <<server, now, sockets, translated>>
    /\ UNCHANGED <<call, clientVars>>

JoinRoomRooms(c, roomId, userName, userLanguage) ==
    /\ server = "rooms"
    /\ sockets[c] = "open"
    /\ LET hasPrev == c \in DOMAIN userSessions
           prev == userSessions[c]
           prevHasRoom == hasPrev /\ prev.roomId \in DOMAIN rooms
           \* socket.leave(prevSession.roomId)
           j1 == IF hasPrev THEN [joined EXCEPT ![c] = @ \ {prev.roomId}] ELSE joined
           \* room.users.delete(socket.id)
           p == IF prevHasRoom THEN MapIndex(rooms[prev.roomId].users, c) ELSE 0
           users1 == IF prevHasRoom THEN MapDelete(rooms[prev.roomId].users, c) ELSE <<>>
           left == IF prevHasRoom
                   THEN SocketTo(j1, c, prev.roomId,
                                 [to |-> c, type |-> "user-left",
                                  userName |-> prev.userName, userId |-> c])
                   ELSE <<>>
           \* if (room.users.size === 0) rooms.delete(prevSession.roomId)
           emptied == prevHasRoom /\ Len(users1) = 0
           rooms1 == IF ~prevHasRoom THEN rooms
                     ELSE IF emptied THEN Remove(rooms, prev.roomId)
                     ELSE [rooms EXCEPT ![prev.roomId].users = users1]
           ts1 == IF ~prevHasRoom THEN Running
                  ELSE IF emptied
                       THEN TasksAfterRoomDelete(Running, prev.roomId)
                       ELSE TasksAfterDelete(Running, prev.roomId, p, c)
           \* socket.join(roomId)
           j2 == [j1 EXCEPT ![c] = @ \cup {roomId}]
           \* if (!rooms.has(roomId)) rooms.set(roomId, {...})
           rooms2 == IF roomId \in DOMAIN rooms1 THEN rooms1
                     ELSE Put(rooms1, roomId, [users |-> <<>>, createdAt |-> now])
           \* room.users.set(socket.id, userInfo)
           users2 == MapSet(rooms2[roomId].users,
                            [id |-> c, userName |-> userName,
                             userLanguage |-> userLanguage])
           rooms3 == [rooms2 EXCEPT ![roomId].users = users2]
           ts2 == TasksAfterSessionReplace(TasksAfterSet(ts1, roomId, c), c)
       IN  /\ joined' = j2
           /\ rooms' = rooms3
           /\ userSessions' = Put(userSessions, c,
                                  [roomId |-> roomId, userName |-> userName,
                                   userLanguage |-> userLanguage])
           /\ tasks' = ts2
           /\ out' = left
                     \o <<[to |-> c, type |-> "room-joined", roomId |-> roomId,
                           users |-> UserList(users2)]>>
                     \o SocketTo(j2, c, roomId,
                                 [to |-> c, type |-> "user-joined",
                                  userName |-> userName,
                                  userLanguage |-> userLanguage, userId |-> c])
    /\ UNCHANGED <<server, now, sockets, translated>>
    /\ UNCHANGED <<call, clientVars>>

(* ----------- server `rooms`: socket.on('disconnect') ------------------- *)
\* Socket.IO has taken the socket out of all its rooms before the handler runs.
DisconnectRooms(c) ==
    /\ server = "rooms"
    /\ sockets[c] = "open"
    /\ sockets' = [sockets EXCEPT ![c] = "closed"]
    /\ LET j1 == [joined EXCEPT ![c] = {}]
           has == c \in DOMAIN userSessions
           session == userSessions[c]
           hasRoom == has /\ session.roomId \in DOMAIN rooms
           p == IF hasRoom THEN MapIndex(rooms[session.roomId].users, c) ELSE 0
           users1 == IF hasRoom THEN MapDelete(rooms[session.roomId].users, c) ELSE <<>>
           emptied == hasRoom /\ Len(users1) = 0
       IN  /\ joined' = j1
           /\ rooms' = IF ~hasRoom THEN rooms
                       ELSE IF emptied THEN Remove(rooms, session.roomId)
                       ELSE [rooms EXCEPT ![session.roomId].users = users1]
           /\ userSessions' = IF has THEN Remove(userSessions, c) ELSE userSessions
           /\ tasks' = LET ts1 == IF ~hasRoom THEN Running
                                  ELSE IF emptied
                                       THEN TasksAfterRoomDelete(Running, session.roomId)
                                       ELSE TasksAfterDelete(Running, session.roomId, p, c)
                       IN  IF has THEN TasksAfterSessionReplace(ts1, c) ELSE ts1
           /\ out' = IF hasRoom
                     THEN SocketTo(j1, c, session.roomId,
                                   [to |-> c, type |-> "user-left",
                                    userName |-> session.userName, userId |-> c])
                     ELSE <<>>
    /\ UNCHANGED <<server, now, translated>>
    /\ UNCHANGED <<call, clientVars>>

(* ----------- server `rooms`: socket.on('change-language') -------------- *)
\* session.userLanguage = language on the session object c's handlers hold.
TasksAfterSessionLanguage(ts, c, language) ==
    [t \in DOMAIN ts |->
        IF ts[t].pc = "await" /\ ts[t].socket = c /\ ts[t].sessLive
        THEN [ts[t] EXCEPT !.session.userLanguage = language]
        ELSE ts[t]]

\* room.users.get(c).userLanguage = language on the entry object itself.
TasksAfterEntryLanguage(ts, r, c, language) ==
    [t \in DOMAIN ts |->
        IF ts[t].pc = "await" /\ ts[t].roomId = r /\ ~ts[t].detached
           /\ ts[t].cur.id = c /\ ts[t].curLive
        THEN [ts[t] EXCEPT !.cur.userLanguage = language]
        ELSE ts[t]]

ChangeLanguageRooms(c, language) ==
    /\ server = "rooms"
    /\ sockets[c] = "open"
    /\ IF c \notin DOMAIN userSessions
       THEN /\ out' = <<>>
            /\ tasks' = Running
            /\ UNCHANGED <<rooms, userSessions>>
       ELSE LET session == userSessions[c]
                oldLanguage == session.userLanguage
                r == session.roomId
                inRoom == r \in DOMAIN rooms /\ MapHas(rooms[r].users, c)
                p == MapIndex(rooms[r].users, c)
                ts1 == TasksAfterSessionLanguage(Running, c, language)
            IN  /\ userSessions' = [userSessions EXCEPT ![c].userLanguage = language]
                /\ rooms' = IF inRoom
                            THEN [rooms EXCEPT ![r].users[p].userLanguage = language]
                            ELSE rooms
                /\ tasks' = IF inRoom
                            THEN TasksAfterEntryLanguage(ts1, r, c, language)
                            ELSE ts1
                /\ out' = IF inRoom
                          THEN SocketTo(joined, c, r,
                                        [to |-> c, type |-> "user-language-changed",
                                         userName |-> session.userName, userId |-> c,
                                         oldLanguage |-> oldLanguage,
                                         newLanguage |-> language])
                          ELSE <<>>
    /\ UNCHANGED <<server, now, sockets, joined, translated>>
    /\ UNCHANGED <<call, clientVars>>

(* ----------- server `rooms`: app.post('/api/room') --------------------- *)
\* roomId is the first 8 characters of a fresh uuidv4(): taken to be an id
\* that is not in the registry.
PostRoom(roomId) ==
    /\ server = "rooms"
    /\ roomId \notin DOMAIN rooms
    /\ rooms' = Put(rooms, roomId, [users |-> <<>>, createdAt |-> now])
    /\ out' = <<>>
    /\ tasks' = Running
    /\ UNCHANGED <<server, now, sockets, joined, userSessions, translated>>
    /\ UNCHANGED <<call, clientVars>>

(* ----------- server `activeRooms`: updateRoomUsers --------------------- *)
\* activeRooms maps a room id to the user Map itself: there is no createdAt.
\* The result is the registry and the handlers in flight after the call.
UpdateRoomUsers(rs, us, ts, roomId, userId, action) ==
    LET rs0 == IF roomId \in DOMAIN rs THEN rs
               ELSE Put(rs, roomId, [users |-> <<>>, createdAt |-> Undefined])
        room == rs0[roomId].users
    IN  IF action = "join"
        THEN IF userId \in DOMAIN us
             THEN [rooms |-> [rs0 EXCEPT ![roomId].users =
                                 MapSet(room, [id |-> userId,
                                               userName |-> us[userId].userName,
                                               userLanguage |-> us[userId].userLanguage])],
                   tasks |-> TasksAfterSet(ts, roomId, userId)]
             ELSE [rooms |-> rs0, tasks |-> ts]
        ELSE IF action = "leave"
        THEN LET room1 == MapDelete(room, userId)
             IN  IF Len(room1) = 0
                 THEN [rooms |-> Remove(rs0, roomId),
                       tasks |-> TasksAfterRoomDelete(ts, roomId)]
                 ELSE [rooms |-> [rs0 EXCEPT ![roomId].users = room1],
                       tasks |-> TasksAfterDelete(ts, roomId, MapIndex(room, userId),
                                                  userId)]
        ELSE [rooms |-> rs0, tasks |-> ts]

\* getRoomUsers: the room's Map, or a new empty Map.
GetRoomUsers(rs, roomId) ==
    IF roomId \in DOMAIN rs THEN rs[roomId].users ELSE <<>>

\* x || d
OrDefault(x, d) == IF x = Undefined THEN d ELSE x

(* ----------- server `activeRooms`: socket.on('join-room') -------------- *)
JoinRoomActive(c, roomId, userName, userLanguage) ==
    /\ server = "activeRooms"
    /\ sockets[c] = "open"
    /\ LET hasPrev == c \in DOMAIN userSessions
           oldRoom == userSessions[c].roomId
           \* socket.leave(oldRoom); updateRoomUsers(oldRoom, socket.id, 'leave')
           j1 == IF hasPrev THEN [joined EXCEPT ![c] = @ \ {oldRoom}] ELSE joined
           s1 == IF hasPrev
                 THEN UpdateRoomUsers(rooms, userSessions, Running, oldRoom, c, "leave")
                 ELSE [rooms |-> rooms, tasks |-> Running]
           \* socket.join(roomId)
           j2 == [j1 EXCEPT ![c] = @ \cup {roomId}]
           us2 == Put(userSessions, c,
                      [roomId |-> roomId, userName |-> userName,
                       userLanguage |-> OrDefault(userLanguage, "en")])
           s2 == UpdateRoomUsers(s1.rooms, us2, TasksAfterSessionReplace(s1.tasks, c),
                                 roomId, c, "join")
       IN  /\ joined' = j2
           /\ userSessions' = us2
           /\ rooms' = s2.rooms
           /\ tasks' = s2.tasks
           /\ out' = SocketTo(j2, c, roomId,
                              [to |-> c, type |-> "user-joined", userId |-> c,
                               userName |-> us2[c].userName,
                               userLanguage |-> userLanguage])
                     \* users: getRoomUsers(roomId) is a Map, which has no
                     \* enumerable properties: it is sent as {}.
                     \o <<[to |-> c, type |-> "room-joined", roomId |-> roomId,
                           users |-> <<>>]>>
    /\ UNCHANGED <<server, now, sockets, translated>>
    /\ UNCHANGED <<call, clientVars>>

(* ----------- server `activeRooms`: socket.on('change-language') -------- *)
ChangeLanguageActive(c, language) ==
    /\ server = "activeRooms"
    /\ sockets[c] = "open"
    /\ IF c \notin DOMAIN userSessions
       THEN /\ out' = <<>>
            /\ tasks' = Running
            /\ UNCHANGED <<userSessions>>
       ELSE /\ userSessions' = [userSessions EXCEPT ![c].userLanguage = language]
            /\ tasks' = TasksAfterSessionLanguage(Running, c, language)
            /\ out' = SocketTo(joined, c, userSessions[c].roomId,
                               [to |-> c, type |-> "user-language-changed",
                                userId |-> c,
                                userName |-> userSessions[c].userName,
                                newLanguage |-> language])
    /\ UNCHANGED <<server, now, sockets, joined, rooms, translated>>
    /\ UNCHANGED <<call, clientVars>>

(* ----------- server `activeRooms`: socket.on('disconnect') ------------- *)
DisconnectActive(c) ==
    /\ server = "activeRooms"
    /\ sockets[c] = "open"
    /\ sockets' = [sockets EXCEPT ![c] = "closed"]
    /\ LET j1 == [joined EXCEPT ![c] = {}]
           has == c \in DOMAIN userSessions
           userSession == userSessions[c]
           s1 == IF has
                 THEN UpdateRoomUsers(rooms, userSessions, Running,
                                      userSession.roomId, c, "leave")
                 ELSE [rooms |-> rooms, tasks |-> Running]
       IN  /\ joined' = j1
           /\ out' = IF has
                     THEN SocketTo(j1, c, userSession.roomId,
                                   [to |-> c, type |-> "user-left", userId |-> c,
                                    userName |-> userSession.userName])
                     ELSE <<>>
           /\ rooms' = s1.rooms
           /\ userSessions' = IF has THEN Remove(userSessions, c) ELSE userSessions
           /\ tasks' = IF has THEN TasksAfterSessionReplace(s1.tasks, c) ELSE s1.tasks
    /\ UNCHANGED <<server, now, translated>>
    /\ UNCHANGED <<call, clientVars>>

(* ------------------- translateWithFreeServices ------------------------- *)
\* services = [LibreTranslate, MyMemory, Lingva]
NumServices == 3

\* What service k answers for a request, when it answers with a text: a
\* string, like the text it was given, that differs from it.
ProviderResult(k, text, sourceLang, targetLang) ==
    text \o " [" \o sourceLang \o ">" \o targetLang \o " by " \o ToString(k) \o "]"

\* A service call ends in one of three ways: it returns a text ("ok"), it
\* returns a falsy value such as undefined or '' ("empty"), or it throws.
Outcomes == {"ok", "empty", "throw"}
Answers == [1..NumServices -> Outcomes]

RECURSIVE TryServices(_, _, _, _, _)
\* for (const service of services), from service k on: the first truthy
\* result is returned; a falsy result or an exception leads to the next
\* service; after the last one the function throws.
TryServices(answers, k, text, sourceLang, targetLang) ==
    IF k > NumServices THEN [ok |-> FALSE, result |-> Undefined, invoked |-> NumServices]
    ELSE IF answers[k] = "ok"
    THEN [ok |-> TRUE, result |-> ProviderResult(k, text, sourceLang, targetLang),
          invoked |-> k]
    ELSE TryServices(answers, k + 1, text, sourceLang, targetLang)

TranslateWithFreeServices(answers, text, sourceLang, targetLang) ==
    TryServices(answers, 1, text, sourceLang, targetLang)

(* ----------- translateWithFreeServices, service by service ------------- *)
\* Mutant of Services: MyMemory is tried before LibreTranslate.
ServicesMyMemoryFirst == <<"MyMemory", "LibreTranslate", "Lingva">>

\* const services = [...], in array order.
Services == <<"LibreTranslate", "MyMemory", "Lingva">>

\* The error thrown behind the loop.
AllFailed == "All translation services failed"

\* translateWithFreeServices(text, sourceLang, targetLang) is called: the
\* first service is invoked and awaited.
\*   k         index in `services` of the service that is awaited
\*   invoked   the services invoked so far, in order
\*   outcomes  how each service that has settled ended
CallTranslateWithFreeServices(text, sourceLang, targetLang) ==
    /\ call.pc \in {"idle", "returned", "thrown"}
    /\ call' = [pc |-> "await", text |-> text, sourceLang |-> sourceLang,
                targetLang |-> targetLang, k |-> 1, invoked |-> <<Services[1]>>,
                outcomes |-> <<>>, result |-> Undefined, error |-> Undefined]
    /\ UNCHANGED <<serverVars, now, clientVars>>

\* The body of the loop behind `await service()` when the awaited service
\* has ended with `outcome`: a truthy result is returned; after anything else
\* the next service is invoked, and behind the last one the function throws.
AfterService(c, outcome) ==
    LET c1 == [c EXCEPT !.outcomes = Append(@, outcome)]
    IN  IF outcome = "ok"
        THEN [c1 EXCEPT !.pc = "returned",
                        !.result = ProviderResult(c.k, c.text, c.sourceLang,
                                                  c.targetLang)]
        ELSE IF c.k < NumServices
        THEN [c1 EXCEPT !.k = c.k + 1, !.invoked = Append(@, Services[c.k + 1])]
        ELSE [c1 EXCEPT !.pc = "thrown", !.error = AllFailed]

\* The awaited service answers: with a text, with a falsy value, or with an
\* error (HTTP status, network error, unusable body).
ServiceSettles(outcome) ==
    /\ call.pc = "await"
    /\ call' = AfterService(call, outcome)
    /\ UNCHANGED <<serverVars, now, clientVars>>

\* The awaited service has not answered within the time the request allows.
\* The activeRooms server passes `timeout: 10000` to axios, which rejects;
\* the fetch calls of the rooms server carry no timeout and no abort signal.
ServiceTimesOut ==
    /\ server = "activeRooms"
    /\ call.pc = "await"
    /\ call' = AfterService(call, "timeout")
    /\ UNCHANGED <<serverVars, now, clientVars>>

(* ------------- PerformanceOptimizer: the translation cache ------------- *)
\* config.cacheSize of the two device profiles (50 and 100 in the source),
\* scaled to the number of keys below.
MobileCacheSize == 2
DesktopCacheSize == 3
\* Number of lookups that are followed on one entry.
MaxHits == 2

\* cleanupCache: maxAge = 30 * 60 * 1000 ms.  The clock of the cache
\* specifications counts in units of 30 minutes.
maxAge == 1

\* Texts the page translates, the language pairs it uses, and the values a
\* translation can have.
CacheTexts == {"Hello", "Please", "Bye"}
CachePairs == {[from |-> "en", to |-> "es"]}
Translations == {"Hola", "Buenas"}

\* preloadCriticalResources: commonPhrases and commonPairs, cut down.
PreloadPhrases == {"Hello", "Please"}
PreloadPairs == {[from |-> "en", to |-> "es"]}

\* A JavaScript number, NaN, or a property that is not there.
Num(n) == [is |-> "number", n |-> n]
NaN == [is |-> "NaN", n |-> 0]
Undef == [is |-> "undefined", n |-> 0]
\* v++
Increment(v) == IF v.is = "number" THEN Num(v.n + 1) ELSE NaN

\* `${text}_${sourceLang}_${targetLang}`
CacheKey(text, sourceLang, targetLang) ==
    text \o "_" \o sourceLang \o "_" \o targetLang

\* The object cacheTranslation stores.  A property an object does not have
\* is Undefined (a string property) or Undef (a number property).
CachedEntry(originalText, translatedText, sourceLang, targetLang, t) ==
    [id |-> CacheKey(originalText, sourceLang, targetLang),
     originalText |-> originalText, translatedText |-> translatedText,
     sourceLang |-> sourceLang, targetLang |-> targetLang,
     text |-> Undefined, translation |-> Undefined,
     timestamp |-> t, hitCount |-> Num(0), lastAccessed |-> Undef]

\* The object a preload timer stores: { text, translation, timestamp }.
PreloadedEntry(phrase, pair, t) ==
    [id |-> CacheKey(phrase, pair.from, pair.to),
     originalText |-> Undefined, translatedText |-> Undefined,
     sourceLang |-> Undefined, targetLang |-> Undefined,
     text |-> phrase, translation |-> "[" \o pair.to \o "] " \o phrase,
     timestamp |-> t, hitCount |-> Undef, lastAccessed |-> Undef]

\* new PerformanceOptimizer(): the cache is empty, optimizeForDevice has set
\* maxCacheSize, and preloadTranslations, finding no key in the cache, has
\* set a timer for every phrase of every pair.
InitClient ==
    /\ server = "rooms"
    /\ now = 0
    /\ sockets = [c \in Conns |-> "new"]
    /\ joined = [c \in Conns |-> {}]
    /\ rooms = <<>>
    /\ userSessions = <<>>
    /\ tasks = [t \in 1..MaxTasks |-> IdleTask]
    /\ translated = {}
    /\ out = <<>>
    /\ call = IdleCall
    /\ translationCache = <<>>
    /\ maxCacheSize \in {MobileCacheSize, DesktopCacheSize}
    /\ timers = {[phrase |-> ph, pair |-> p] : ph \in PreloadPhrases, p \in PreloadPairs}
    /\ returned = NoReturn
    /\ fetches = {}
    /\ wire = [c \in Conns |-> <<>>]
    /\ NoDebounce

\* The callback of a preload timer runs: translationCache.set(cacheKey, ...).
PreloadFires(tm) ==
    /\ tm \in timers
    /\ timers' = timers \ {tm}
    /\ translationCache' = MapSet(translationCache,
                                  PreloadedEntry(tm.phrase, tm.pair, now))
    /\ UNCHANGED <<serverVars, now, call, debounceVars, maxCacheSize, returned, fetches, wire>>

\* Mutant of OldestKey: the key that was inserted last.
NewestKey(m) == m[Len(m)].id

\* this.translationCache.keys().next().value
OldestKey(m) == m[1].id

\* What a method that returns nothing leaves in `returned`.
Returns(method, key) ==
    [method |-> method, key |-> key, hit |-> FALSE, translatedText |-> Undefined]

\* The cache after cacheTranslation has run on cache m at time t.
Stored(m, originalText, translatedText, sourceLang, targetLang, t) ==
    LET c1 == IF Len(m) >= maxCacheSize /\ m # <<>>
              THEN MapDelete(m, OldestKey(m))
              ELSE m
    IN  MapSet(c1, CachedEntry(originalText, translatedText, sourceLang,
                               targetLang, t))

\* cacheTranslation(originalText, translatedText, sourceLang, targetLang)
CacheTranslation(originalText, translatedText, sourceLang, targetLang) ==
    /\ maxCacheSize > 0
    /\ translationCache' = Stored(translationCache, originalText, translatedText,
                                  sourceLang, targetLang, now)
    /\ returned' = Returns("cacheTranslation",
                           CacheKey(originalText, sourceLang, targetLang))
    /\ UNCHANGED <<serverVars, now, call, debounceVars, maxCacheSize, timers, fetches, wire>>

\* What getCachedTranslation(text, sourceLang, targetLang) returns on cache m.
Lookup(m, text, sourceLang, targetLang) ==
    LET key == CacheKey(text, sourceLang, targetLang)
    IN  IF MapHas(m, key)
        THEN [method |-> "getCachedTranslation", key |-> key, hit |-> TRUE,
              translatedText |-> MapGet(m, key).translatedText]
        ELSE [method |-> "getCachedTranslation", key |-> key, hit |-> FALSE,
              translatedText |-> Undefined]

\* getCachedTranslation(text, sourceLang, targetLang)
GetCachedTranslation(text, sourceLang, targetLang) ==
    /\ maxCacheSize > 0
    /\ LET key == CacheKey(text, sourceLang, targetLang)
           p == MapIndex(translationCache, key)
       IN  /\ p # 0 /\ translationCache[p].hitCount.is = "number"
              => translationCache[p].hitCount.n < MaxHits
           /\ translationCache' =
                  IF p = 0 THEN translationCache
                  ELSE [translationCache EXCEPT
                           ![p].hitCount = Increment(@),
                           ![p].lastAccessed = Num(now)]
    /\ returned' = Lookup(translationCache, text, sourceLang, targetLang)
    /\ UNCHANGED <<serverVars, now, call, debounceVars, maxCacheSize, timers, fetches, wire>>

\* Mutant of Expired: an entry goes when it is exactly maxAge old.
ExpiredAtMaxAge(e, t) == t - e.timestamp >= maxAge

\* now - value.timestamp > maxAge
Expired(e, t) == t - e.timestamp > maxAge

RECURSIVE CleanupFrom(_, _, _)
\* for (const [key, value] of this.translationCache.entries()), from entry i
\* on: deleting the entry the iterator stands on brings the next one to i.
CleanupFrom(m, i, t) ==
    IF i > Len(m) THEN m
    ELSE IF Expired(m[i], t) THEN CleanupFrom(MapDelete(m, m[i].id), i, t)
    ELSE CleanupFrom(m, i + 1, t)

\* cleanupCache(), called by the page's setInterval.
CleanupCache ==
    /\ maxCacheSize > 0
    /\ translationCache' = CleanupFrom(translationCache, 1, now)
    /\ returned' = Returns("cleanupCache", Undefined)
    /\ UNCHANGED <<serverVars, now, call, debounceVars, maxCacheSize, timers, fetches, wire>>

(* ------------- PerformanceOptimizer: translateSingle ------------------- *)
\* The texts translateSingle is asked for; the empty string is one of them.
RequestTexts == {"", "Hello"}

\* The ways the fetch of /api/translate can end: the JSON body says
\* success: true, it says success: false, or fetch / response.json() throws.
\* Only the `activeRooms` server has the route (part_003:415); the page of
\* the `rooms` server gets an answer that is not JSON.
Responses == IF server = "activeRooms" THEN {"success", "failure", "throw"}
             ELSE {"throw"}

\* translateSingle(request), up to its return from the cache or to its await
\* of fetch.  One call per request is followed at a time.
TranslateSingle(text, sourceLang, targetLang) ==
    /\ maxCacheSize > 0
    /\ LET key == CacheKey(text, sourceLang, targetLang)
           p == MapIndex(translationCache, key)
           request == [text |-> text, sourceLang |-> sourceLang,
                       targetLang |-> targetLang]
       IN  /\ p # 0 /\ translationCache[p].hitCount.is = "number"
              => translationCache[p].hitCount.n < MaxHits
           /\ p = 0 => request \notin fetches
           /\ translationCache' =
                  IF p = 0 THEN translationCache
                  ELSE [translationCache EXCEPT
                           ![p].hitCount = Increment(@),
                           ![p].lastAccessed = Num(now)]
           /\ returned' =
                  IF p = 0 THEN Lookup(translationCache, text, sourceLang, targetLang)
                  ELSE [method |-> "translateSingle", key |-> key, hit |-> TRUE,
                        translatedText |-> translationCache[p].translatedText]
           /\ fetches' = IF p = 0 THEN fetches \cup {request} ELSE fetches
    /\ UNCHANGED <<serverVars, now, call, debounceVars, maxCacheSize, timers, wire>>

\* The fetch of a translateSingle call settles and the call runs to its end.
FetchSettles(request, response, translatedText) ==
    /\ request \in fetches
    /\ response \in Responses
    /\ fetches' = fetches \ {request}
    /\ translationCache' =
           IF response = "success"
           THEN Stored(translationCache, request.text, translatedText,
                       request.sourceLang, request.targetLang, now)
           ELSE translationCache
    /\ returned' =
           [method |-> IF response = "throw" THEN "translateSingle throws"
                       ELSE "translateSingle",
            key |-> CacheKey(request.text, request.sourceLang, request.targetLang),
            hit |-> FALSE,
            translatedText |-> IF response = "success" THEN translatedText
                               ELSE Undefined]
    /\ UNCHANGED <<serverVars, now, call, debounceVars, maxCacheSize, timers, wire>>

(* ------------------------ GET /api/room/:roomId ----------------------- *)
\* The receiver of an HTTP response in `out`.
HttpClient == "http"

\* server `rooms`: app.get('/api/room/:roomId')
GetRoomInfoRooms(roomId) ==
    /\ server = "rooms"
    /\ out' = IF roomId \notin DOMAIN rooms
              THEN <<[to |-> HttpClient, type |-> "response", status |-> 404,
                      error |-> "Room not found"]>>
              ELSE <<[to |-> HttpClient, type |-> "response", status |-> 200,
                      roomId |-> roomId,
                      userCount |-> Len(rooms[roomId].users),
                      users |-> UserList(rooms[roomId].users)]>>
    /\ tasks' = Running
    /\ UNCHANGED <<server, now, sockets, joined, rooms, userSessions, translated>>
    /\ UNCHANGED <<call, clientVars>>

\* server `activeRooms`: app.get('/api/room/:roomId')
GetRoomInfoActive(roomId) ==
    /\ server = "activeRooms"
    /\ LET roomUsers == GetRoomUsers(rooms, roomId)
       IN  out' = <<[to |-> HttpClient, type |-> "response", status |-> 200,
                     success |-> TRUE, roomId |-> roomId,
                     userCount |-> Len(roomUsers),
                     users |-> UserList(roomUsers)]>>
    /\ tasks' = Running
    /\ UNCHANGED <<server, now, sockets, joined, rooms, userSessions, translated>>
    /\ UNCHANGED <<call, clientVars>>

(* ------------------------- relay handlers ------------------------------ *)
FreeSlots == {t \in DOMAIN tasks : tasks[t].pc \in {"idle", "done"}}
Slot == CHOOSE t \in FreeSlots : \A u \in FreeSlots : t <= u

\* io.to(userId).emit / socket.to(userId).emit reach the socket while it is
\* connected, and nobody afterwards.
Deliver(ev) == IF sockets[ev.to] = "open" THEN <<ev>> ELSE <<>>

\* The language the handler compares a recipient's language with and passes
\* to translateWithFreeServices as the source:
\*   rooms, live-speech             the payload's sourceLanguage
\*   rooms, conversation-message    session.userLanguage, read at each use
\*   activeRooms, live-speech       userSession.userLanguage, read once
SourceOf(tk) ==
    IF tk.kind = "conversation-message" THEN tk.session.userLanguage
    ELSE tk.sourceLanguage

\* The else branch of the language test.
SameLanguageEvents(tk, e) ==
    IF server = "rooms"
    THEN Deliver([to |-> e.id, type |-> "new-message", originalText |-> tk.text,
                  speakerName |-> tk.session.userName])
    ELSE <<>>

\* The sockets the events of em went to, in order.
Recipients(em) == [i \in 1..Len(em) |-> em[i].to]

\* The handler has left its loop.
Finish(tk, em) ==
    [tk EXCEPT !.pc = "done", !.idx = 0, !.curLive = FALSE,
               !.sessLive = FALSE,
               !.cur = [id |-> Undefined, userLanguage |-> Undefined],
               !.session = [userName |-> tk.session.userName,
                            userLanguage |-> Undefined],
               !.from = Undefined, !.target = Undefined,
               !.sent = @ \o Recipients(em)]

RECURSIVE RunLoop(_, _, _, _)
\* for (const [userId, userInfo] of users), from entry i on, until the next
\* provider call or the end of the Map.  em: the events emitted on the way.
RunLoop(tk, users, i, em) ==
    IF i > Len(users) THEN [task |-> Finish(tk, em), emitted |-> em]
    ELSE LET e == users[i]
         IN  IF e.id = tk.socket THEN RunLoop(tk, users, i + 1, em)
             ELSE IF e.userLanguage # SourceOf(tk)
             THEN [task |-> [tk EXCEPT !.pc = "await", !.idx = i,
                                       !.cur = [id |-> e.id,
                                                userLanguage |-> e.userLanguage],
                                       \* only the `rooms` server reads
                                       \* userInfo again after the await
                                       !.curLive = (server = "rooms"),
                                       !.from = SourceOf(tk),
                                       !.target = e.userLanguage,
                                       !.sent = @ \o Recipients(em)],
                   emitted |-> em]
             ELSE RunLoop(tk, users, i + 1, em \o SameLanguageEvents(tk, e))

\* The frame of a relay handler that starts.  Of the session object only the
\* conversation-message handler of `rooms` reads userLanguage again later.
\*   sent      the recipients of the events the handler has emitted so far
\*   stable    no entry was put into or taken out of the handler's Map since
\*             it started
\*   snapshot  the keys of the handler's Map when it started
NewTask(kind, c, session, text, sourceLanguage, isInterim, users) ==
    [pc |-> "await", kind |-> kind, socket |-> c, roomId |-> session.roomId,
     session |-> [userName |-> session.userName,
                  userLanguage |-> IF kind = "conversation-message"
                                   THEN session.userLanguage ELSE Undefined],
     sessLive |-> (kind = "conversation-message"),
     text |-> text, sourceLanguage |-> sourceLanguage, isInterim |-> isInterim,
     snapshot |-> MapKeys(users),
     detached |-> FALSE, idx |-> 0,
     cur |-> [id |-> Undefined, userLanguage |-> Undefined], curLive |-> FALSE,
     from |-> Undefined, target |-> Undefined,
     sent |-> <<>>, stable |-> TRUE]

\* A relay handler starts on a free slot and runs to its first provider call.
StartRelay(kind, c, session, text, sourceLanguage, isInterim, users) ==
    LET r == RunLoop(NewTask(kind, c, session, text, sourceLanguage, isInterim,
                             users),
                     users, 1, <<>>)
    IN  /\ FreeSlots # {}
        /\ tasks' = [Running EXCEPT ![Slot] = r.task]
        /\ out' = r.emitted

\* server `rooms`: the handler of 'live-speech', on the server's state.  The
\* payload is { text, isInterim, sourceLanguage }; the handler reads text and
\* sourceLanguage.
OnLiveSpeechRooms(c, text, sourceLanguage, isInterim) ==
    /\ server = "rooms"
    /\ sockets[c] = "open"
    /\ IF c \notin DOMAIN userSessions \/ userSessions[c].roomId \notin DOMAIN rooms
       THEN out' = <<>> /\ tasks' = Running
       ELSE StartRelay("live-speech", c, userSessions[c], text, sourceLanguage,
                       isInterim, rooms[userSessions[c].roomId].users)
    /\ UNCHANGED <<server, now, sockets, joined, rooms, userSessions, translated>>

\* server `rooms`: socket.on('live-speech')
LiveSpeechRooms(c, text, sourceLanguage, isInterim) ==
    /\ OnLiveSpeechRooms(c, text, sourceLanguage, isInterim)
    /\ UNCHANGED <<call, clientVars>>

\* server `rooms`: the handler of 'conversation-message', on the server's state.
OnConversationMessageRooms(c, text) ==
    /\ server = "rooms"
    /\ sockets[c] = "open"
    /\ IF c \notin DOMAIN userSessions \/ userSessions[c].roomId \notin DOMAIN rooms
       THEN out' = <<>> /\ tasks' = Running
       ELSE StartRelay("conversation-message", c, userSessions[c], text, Undefined,
                       FALSE, rooms[userSessions[c].roomId].users)
    /\ UNCHANGED <<server, now, sockets, joined, rooms, userSessions, translated>>

\* server `rooms`: socket.on('conversation-message')
ConversationMessageRooms(c, text) ==
    /\ OnConversationMessageRooms(c, text)
    /\ UNCHANGED <<call, clientVars>>

\* server `activeRooms`: the handler of 'live-speech', on the server's state.
\* The handler reads text and isInterim of the payload.
OnLiveSpeechActive(c, text, isInterim) ==
    /\ server = "activeRooms"
    /\ sockets[c] = "open"
    /\ IF c \notin DOMAIN userSessions
       THEN out' = <<>> /\ tasks' = Running
       ELSE StartRelay("live-speech", c, userSessions[c], text,
                       userSessions[c].userLanguage, isInterim,
                       GetRoomUsers(rooms, userSessions[c].roomId))
    /\ UNCHANGED <<server, now, sockets, joined, rooms, userSessions, translated>>

\* server `activeRooms`: socket.on('live-speech')
LiveSpeechActive(c, text, isInterim) ==
    /\ OnLiveSpeechActive(c, text, isInterim)
    /\ UNCHANGED <<call, clientVars>>

\* Mutant of ConversationMessageActive: no test for a session; the message
\* goes to every other socket.
ConversationMessageUnguarded(c, text) ==
    /\ server = "activeRooms"
    /\ sockets[c] = "open"
    /\ out' = EmitTo(Conns \ {c},
                     [to |-> c, type |-> "new-message", originalText |-> text,
                      sourceLanguage |-> Undefined, speakerName |-> Undefined,
                      speakerId |-> c], 1)
    /\ tasks' = Running
    /\ UNCHANGED <<server, now, sockets, joined, rooms, userSessions, translated>>
    /\ UNCHANGED <<call, clientVars>>

\* server `activeRooms`: the handler of 'conversation-message', on the
\* server's state.
OnConversationMessageActive(c, text) ==
    /\ server = "activeRooms"
    /\ sockets[c] = "open"
    /\ out' = IF c \notin DOMAIN userSessions THEN <<>>
              ELSE SocketTo(joined, c, userSessions[c].roomId,
                            [to |-> c, type |-> "new-message", originalText |-> text,
                             sourceLanguage |-> userSessions[c].userLanguage,
                             speakerName |-> userSessions[c].userName,
                             speakerId |-> c])
    /\ tasks' = Running
    /\ UNCHANGED <<server, now, sockets, joined, rooms, userSessions, translated>>

\* server `activeRooms`: socket.on('conversation-message')
ConversationMessageActive(c, text) ==
    /\ OnConversationMessageActive(c, text)
    /\ UNCHANGED <<call, clientVars>>

\* The event of a translation that succeeded with `result`.
TranslationEvents(tk, result) ==
    IF server = "rooms"
    THEN Deliver([to |-> tk.cur.id, type |-> "live-translation",
                  originalText |-> tk.text, translatedText |-> result,
                  speakerName |-> tk.session.userName,
                  sourceLanguage |-> SourceOf(tk),
                  targetLanguage |-> tk.cur.userLanguage,
                  error |-> Undefined])
    ELSE Deliver([to |-> tk.cur.id, type |-> "live-translation",
                  originalText |-> tk.text, translatedText |-> result,
                  speakerName |-> tk.session.userName,
                  sourceLanguage |-> SourceOf(tk),
                  targetLanguage |-> tk.target,
                  error |-> Undefined,
                  isInterim |-> tk.isInterim])

\* The catch branch around translateWithFreeServices.
FailureEvents(tk) ==
    IF server = "rooms" /\ tk.kind = "live-speech"
    THEN Deliver([to |-> tk.cur.id, type |-> "live-translation",
                  originalText |-> tk.text, translatedText |-> tk.text,
                  speakerName |-> tk.session.userName,
                  sourceLanguage |-> tk.sourceLanguage,
                  targetLanguage |-> tk.cur.userLanguage,
                  error |-> "Translation failed"])
    ELSE <<>>

\* The Map the handler of slot t iterates, as it is now.
UsersOf(tk) ==
    IF tk.detached \/ tk.roomId \notin DOMAIN rooms THEN <<>>
    ELSE rooms[tk.roomId].users

\* The call of translateWithFreeServices that the handler of slot t awaits
\* settles; answers[k] is the way service k answers if it is invoked.  The
\* handler emits and runs on to its next call or to its end.
TranslationSettles(t, answers) ==
    /\ tasks[t].pc = "await"
    /\ LET tk == tasks[t]
           tr == TranslateWithFreeServices(answers, tk.text, tk.from, tk.target)
           r == RunLoop(tk, UsersOf(tk), tk.idx + 1,
                        IF tr.ok THEN TranslationEvents(tk, tr.result)
                        ELSE FailureEvents(tk))
       IN  /\ tasks' = [Running EXCEPT ![t] = r.task]
           /\ out' = r.emitted
           /\ translated' = IF tr.ok
                            THEN translated \cup {<<tk.text, tk.from, tk.target>>}
                            ELSE translated
    /\ UNCHANGED <<server, now, sockets, joined, rooms, userSessions>>
    /\ UNCHANGED <<call, clientVars>>

(* ------------------- the page: translateText --------------------------- *)
\* LiveTranslationApp.translateText(text, isLiveSpeech) of the page of socket
\* c while it is in a room (this.currentRoom is set): the page emits
\* 'live-speech' if the text was spoken, and then 'conversation-message'.
\* this.userLanguage is the language the page sent with join-room.  The
\* messages of one call are followed at a time.
TranslateText(c, text, isLiveSpeech) ==
    /\ sockets[c] = "open"
    /\ c \in DOMAIN userSessions
    /\ \A d \in Conns : wire[d] = <<>>
    /\ wire' = [wire EXCEPT ![c] =
                   (IF isLiveSpeech
                    THEN <<[event |-> "live-speech", text |-> text,
                            isInterim |-> FALSE,
                            sourceLanguage |-> userSessions[c].userLanguage]>>
                    ELSE <<>>)
                   \o <<[event |-> "conversation-message", text |-> text,
                         messageType |-> IF isLiveSpeech THEN "speech"
                                         ELSE "text"]>>]
    /\ UNCHANGED <<serverVars, now, call, debounceVars, translationCache, maxCacheSize, timers,
                   returned, fetches>>

\* The server receives the next message of socket c, a 'live-speech'.
ReceiveLiveSpeech(c) ==
    /\ wire[c] # <<>>
    /\ Head(wire[c]).event = "live-speech"
    /\ LET m == Head(wire[c])
       IN  \/ OnLiveSpeechRooms(c, m.text, m.sourceLanguage, m.isInterim)
           \/ OnLiveSpeechActive(c, m.text, m.isInterim)
    /\ wire' = [wire EXCEPT ![c] = Tail(@)]
    /\ UNCHANGED <<call, debounceVars, translationCache, maxCacheSize, timers, returned, fetches>>

\* The server receives the next message of socket c, a 'conversation-message'.
ReceiveConversationMessage(c) ==
    /\ wire[c] # <<>>
    /\ Head(wire[c]).event = "conversation-message"
    /\ \/ OnConversationMessageRooms(c, Head(wire[c]).text)
       \/ OnConversationMessageActive(c, Head(wire[c]).text)
    /\ wire' = [wire EXCEPT ![c] = Tail(@)]
    /\ UNCHANGED <<call, debounceVars, translationCache, maxCacheSize, timers, returned, fetches>>

(* ------- PerformanceOptimizer.createDebouncedTranslation --------------- *)
\* The delays a debounced function is made with, in ticks of the clock.
Delays == {0, 1}
\* The arguments it is called with.
DebounceArgs == {"Hello", "Bye"}
\* Number of calls of the debounced function.
MaxCalls == 3

\* createDebouncedTranslation(translationFunction, delay): the closure of the
\* function it returns.
CreateDebouncedTranslation(delay) == [delay |-> delay, timeoutId |-> NoTimer]

\* The timer of setTimeout is due: its callback is ready to run.
TimerDue == debounced.timeoutId.pending /\ debounced.timeoutId.due <= now

\* The returned function is called with args: clearTimeout(timeoutId), then
\* timeoutId = setTimeout(callback, delay).  clearTimeout drops the pending
\* timer, also one that is due and whose callback has not run yet.
DebouncedCall(args) ==
    /\ Len(calls) < MaxCalls
    /\ calls' = Append(calls, [args |-> args, at |-> now])
    /\ debounced' = [debounced EXCEPT
                        !.timeoutId = [pending |-> TRUE, call |-> Len(calls) + 1,
                                       args |-> args,
                                       due |-> now + debounced.delay]]
    /\ UNCHANGED <<serverVars, now, call, translationCache, maxCacheSize, timers,
                   returned, fetches, wire, applied>>

\* The callback of the pending timer runs, once the timer is due:
\* translationFunction.apply(this, args).
TimeoutFires ==
    /\ TimerDue
    /\ applied' = Append(applied, [call |-> debounced.timeoutId.call,
                                   args |-> debounced.timeoutId.args, at |-> now])
    /\ debounced' = [debounced EXCEPT !.timeoutId = NoTimer]
    /\ UNCHANGED <<serverVars, now, call, translationCache, maxCacheSize, timers,
                   returned, fetches, wire, calls>>

(* --------------------------- specifications ---------------------------- *)
\* The display name of a client.
UserNameOf(c) == IF c = "c1" THEN "Alice" ELSE IF c = "c2" THEN "Bob" ELSE "Carol"

\* The display names a client may send: c1 has a second one to change to.
NamesOf(c) == IF c = "c1" THEN {UserNameOf(c), "Al"} ELSE {UserNameOf(c)}

\* Registry and session table: every membership event, with any room and
\* language; no utterances, and the clock stands still.
NextRegistry ==
    \/ \E c \in Conns : Connection(c)
    \/ \E c \in Conns, r \in RoomIds, l \in Langs : \E n \in NamesOf(c) :
          JoinRoomRooms(c, r, n, l)
    \/ \E c \in Conns, l \in Langs : ChangeLanguageRooms(c, l)
    \/ \E c \in Conns : DisconnectRooms(c)
    \/ \E r \in RoomIds : PostRoom(r)
    \/ \E c \in Conns, r \in RoomIds, l \in Langs : \E n \in NamesOf(c) :
          JoinRoomActive(c, r, n, l)
    \/ \E c \in Conns, l \in Langs : ChangeLanguageActive(c, l)
    \/ \E c \in Conns : DisconnectActive(c)

SpecRegistry == Init /\ [][NextRegistry]_vars

\* The room the clients of the relay specification meet in.
RelayRooms == {"R1"}

\* No fan-out is in flight.
Quiet == \A t \in DOMAIN tasks : tasks[t].pc # "await"

\* The relay: final utterances (isInterim: false, as the page sends them) and
\* their fan-out in one room.  Membership events arrive between fan-outs,
\* every client keeps one display name and the clock stands still.
NextRelay ==
    \/ \E c \in Conns : Connection(c)
    \/ \E c \in Conns, r \in RelayRooms, l \in Langs :
          Quiet /\ JoinRoomRooms(c, r, UserNameOf(c), l)
    \/ \E c \in Conns, l \in Langs : Quiet /\ ChangeLanguageRooms(c, l)
    \/ \E c \in Conns : Quiet /\ DisconnectRooms(c)
    \/ \E c \in Conns, r \in RelayRooms, l \in Langs :
          Quiet /\ JoinRoomActive(c, r, UserNameOf(c), l)
    \/ \E c \in Conns, l \in Langs : Quiet /\ ChangeLanguageActive(c, l)
    \/ \E c \in Conns : Quiet /\ DisconnectActive(c)
    \/ \E c \in Conns, x \in Texts, l \in Langs : LiveSpeechRooms(c, x, l, FALSE)
    \/ \E c \in Conns, x \in Texts : ConversationMessageRooms(c, x)
    \/ \E c \in Conns, x \in Texts : LiveSpeechActive(c, x, FALSE)
    \/ \E c \in Conns, x \in Texts : ConversationMessageActive(c, x)
    \/ \E t \in 1..MaxTasks, a \in Answers : TranslationSettles(t, a)

SpecRelay == Init /\ [][NextRelay]_vars

\* One caller of translateWithFreeServices at a time, with every way the
\* services can answer.
NextChain ==
    \/ \E x \in Texts, s \in Langs, d \in Langs :
          CallTranslateWithFreeServices(x, s, d)
    \/ \E o \in Outcomes : ServiceSettles(o)
    \/ ServiceTimesOut

\* The page's cache within the first second of the page: stores, lookups,
\* sweeps and the preload timers in any order; the clock stands still.
NextCache ==
    \/ \E x \in CacheTexts, v \in Translations, p \in CachePairs :
          CacheTranslation(x, v, p.from, p.to)
    \/ \E x \in CacheTexts, p \in CachePairs : GetCachedTranslation(x, p.from, p.to)
    \/ \E tm \in timers : PreloadFires(tm)
    \/ CleanupCache

SpecCache == InitClient /\ [][NextCache]_vars

\* The page's cache over time: stores and sweeps while the clock advances.
\* The preload timers run within a second, before the first 30 minutes pass.
NextSweep ==
    \/ \E x \in CacheTexts, v \in Translations, p \in CachePairs :
          CacheTranslation(x, v, p.from, p.to)
    \/ \E tm \in timers : PreloadFires(tm)
    \/ timers = {} /\ Tick
    \/ CleanupCache

SpecSweep == InitClient /\ [][NextSweep]_vars

\* A page of either server is opened.
InitTranslate ==
    /\ server \in {"rooms", "activeRooms"}
    /\ now = 0
    /\ sockets = [c \in Conns |-> "new"]
    /\ joined = [c \in Conns |-> {}]
    /\ rooms = <<>>
    /\ userSessions = <<>>
    /\ tasks = [t \in 1..MaxTasks |-> IdleTask]
    /\ translated = {}
    /\ out = <<>>
    /\ call = IdleCall
    /\ translationCache = <<>>
    /\ maxCacheSize \in {MobileCacheSize, DesktopCacheSize}
    /\ timers = {[phrase |-> ph, pair |-> p] : ph \in PreloadPhrases, p \in PreloadPairs}
    /\ returned = NoReturn
    /\ fetches = {}
    /\ wire = [c \in Conns |-> <<>>]
    /\ NoDebounce

\* The page translates: translateSingle and cacheTranslation with any text,
\* the empty one included, while the preload timers run.
NextTranslate ==
    \/ \E x \in RequestTexts, p \in CachePairs : TranslateSingle(x, p.from, p.to)
    \/ \E q \in fetches, a \in {"success", "failure", "throw"}, v \in Translations :
          FetchSettles(q, a, v)
    \/ \E x \in RequestTexts, v \in Translations, p \in CachePairs :
          CacheTranslation(x, v, p.from, p.to)
    \/ \E tm \in timers : PreloadFires(tm)

SpecTranslate == InitTranslate /\ [][NextTranslate]_vars

\* Room-info queries between membership events: every client keeps one
\* display name.
NextQuery ==
    \/ \E c \in Conns : Connection(c)
    \/ \E c \in Conns, r \in RoomIds, l \in Langs :
          JoinRoomRooms(c, r, UserNameOf(c), l)
    \/ \E c \in Conns : DisconnectRooms(c)
    \/ \E r \in RoomIds : PostRoom(r)
    \/ \E r \in RoomIds : GetRoomInfoRooms(r)
    \/ \E c \in Conns, r \in RoomIds, l \in Langs :
          JoinRoomActive(c, r, UserNameOf(c), l)
    \/ \E c \in Conns : DisconnectActive(c)
    \/ \E r \in RoomIds : GetRoomInfoActive(r)

SpecQuery == Init /\ [][NextQuery]_vars

\* Room identifiers that differ in letter case only.
CaseRoomIds == {"abc123", "ABC123"}

\* Joins and leaves with room identifiers that differ in letter case only.
NextCase ==
    \/ \E c \in Conns : Connection(c)
    \/ \E c \in Conns, r \in CaseRoomIds, l \in Langs :
          JoinRoomRooms(c, r, UserNameOf(c), l)
    \/ \E c \in Conns : DisconnectRooms(c)
    \/ \E c \in Conns, r \in CaseRoomIds, l \in Langs :
          JoinRoomActive(c, r, UserNameOf(c), l)
    \/ \E c \in Conns : DisconnectActive(c)

SpecCase == Init /\ [][NextCase]_vars

\* Speech in one room, interim fragments (isInterim: true) and final
\* utterances, between joins.
NextInterim ==
    \/ \E c \in Conns : Connection(c)
    \/ \E c \in Conns, r \in RelayRooms, l \in Langs :
          Quiet /\ JoinRoomRooms(c, r, UserNameOf(c), l)
    \/ \E c \in Conns, r \in RelayRooms, l \in Langs :
          Quiet /\ JoinRoomActive(c, r, UserNameOf(c), l)
    \/ \E c \in Conns, x \in Texts, l \in Langs, i \in BOOLEAN :
          LiveSpeechRooms(c, x, l, i)
    \/ \E c \in Conns, x \in Texts, i \in BOOLEAN : LiveSpeechActive(c, x, i)
    \/ \E t \in 1..MaxTasks, a \in Answers : TranslationSettles(t, a)

SpecInterim == Init /\ [][NextInterim]_vars

\* Joins at any time, also while the fan-out of an utterance awaits a
\* provider: final utterances in one room, which every client joins once.
NextChurn ==
    \/ \E c \in Conns : Connection(c)
    \/ \E c \in Conns, r \in RelayRooms, l \in Langs :
          c \notin DOMAIN userSessions /\ JoinRoomRooms(c, r, UserNameOf(c), l)
    \/ \E c \in Conns, r \in RelayRooms, l \in Langs :
          c \notin DOMAIN userSessions /\ JoinRoomActive(c, r, UserNameOf(c), l)
    \/ \E c \in Conns, x \in Texts, l \in Langs : LiveSpeechRooms(c, x, l, FALSE)
    \/ \E c \in Conns, x \in Texts : LiveSpeechActive(c, x, FALSE)
    \/ \E t \in 1..MaxTasks, a \in Answers : TranslationSettles(t, a)

SpecChurn == Init /\ [][NextChurn]_vars

\* Language changes at any time, also while the fan-out of an utterance
\* awaits a provider: final utterances in one room, which every client joins
\* once, between fan-outs; the members change their languages.
NextLang ==
    \/ \E c \in Conns : Connection(c)
    \/ \E c \in Conns, r \in RelayRooms, l \in Langs :
          /\ Quiet /\ c \notin DOMAIN userSessions
          /\ JoinRoomRooms(c, r, UserNameOf(c), l)
    \/ \E c \in Conns, r \in RelayRooms, l \in Langs :
          /\ Quiet /\ c \notin DOMAIN userSessions
          /\ JoinRoomActive(c, r, UserNameOf(c), l)
    \/ \E c \in DOMAIN userSessions, l \in Langs : ChangeLanguageRooms(c, l)
    \/ \E c \in DOMAIN userSessions, l \in Langs : ChangeLanguageActive(c, l)
    \/ \E c \in Conns, x \in Texts, l \in Langs : LiveSpeechRooms(c, x, l, FALSE)
    \/ \E c \in Conns, x \in Texts : LiveSpeechActive(c, x, FALSE)
    \/ \E t \in 1..MaxTasks, a \in Answers : TranslationSettles(t, a)

SpecLang == Init /\ [][NextLang]_vars

\* Room switches at any time, also while the fan-out of an utterance awaits
\* a provider: every client joins the relay room once and may go on from it
\* to another room, keeping its language.
NextSwitch ==
    \/ \E c \in Conns : Connection(c)
    \/ \E c \in Conns, r \in RelayRooms, l \in Langs :
          /\ Quiet /\ c \notin DOMAIN userSessions
          /\ JoinRoomRooms(c, r, UserNameOf(c), l)
    \/ \E c \in Conns, r \in RelayRooms, l \in Langs :
          /\ Quiet /\ c \notin DOMAIN userSessions
          /\ JoinRoomActive(c, r, UserNameOf(c), l)
    \/ \E c \in DOMAIN userSessions, r \in RoomIds \ RelayRooms :
          /\ userSessions[c].roomId \in RelayRooms
          /\ JoinRoomRooms(c, r, UserNameOf(c), userSessions[c].userLanguage)
    \/ \E c \in DOMAIN userSessions, r \in RoomIds \ RelayRooms :
          /\ userSessions[c].roomId \in RelayRooms
          /\ JoinRoomActive(c, r, UserNameOf(c), userSessions[c].userLanguage)
    \/ \E c \in Conns, x \in Texts, l \in Langs : LiveSpeechRooms(c, x, l, FALSE)
    \/ \E c \in Conns, x \in Texts : LiveSpeechActive(c, x, FALSE)
    \/ \E t \in 1..MaxTasks, a \in Answers : TranslationSettles(t, a)

SpecSwitch == Init /\ [][NextSwitch]_vars

\* Pages in one room: every client joins once, between fan-outs, and the
\* utterances are the ones translateText emits.
NextPage ==
    \/ \E c \in Conns : Connection(c)
    \/ \E c \in Conns, r \in RelayRooms, l \in Langs :
          /\ Quiet /\ c \notin DOMAIN userSessions
          /\ JoinRoomRooms(c, r, UserNameOf(c), l)
    \/ \E c \in Conns, r \in RelayRooms, l \in Langs :
          /\ Quiet /\ c \notin DOMAIN userSessions
          /\ JoinRoomActive(c, r, UserNameOf(c), l)
    \/ \E c \in Conns, x \in Texts, s \in BOOLEAN : TranslateText(c, x, s)
    \/ \E c \in Conns : ReceiveLiveSpeech(c)
    \/ \E c \in Conns : ReceiveConversationMessage(c)
    \/ \E t \in 1..MaxTasks, a \in Answers : TranslationSettles(t, a)

SpecPage == Init /\ [][NextPage]_vars

\* Requests whose text or language code contains the separator of the key.
KeyTriples ==
    {[text |-> "Hi", sourceLang |-> "en_US", targetLang |-> "es"],
     [text |-> "Hi_en", sourceLang |-> "US", targetLang |-> "es"],
     [text |-> "Bye", sourceLang |-> "en", targetLang |-> "es"]}

\* Stores and lookups with those requests.
NextKeys ==
    \/ \E q \in KeyTriples, v \in Translations :
          CacheTranslation(q.text, v, q.sourceLang, q.targetLang)
    \/ \E q \in KeyTriples : GetCachedTranslation(q.text, q.sourceLang, q.targetLang)

SpecKeys == InitClient /\ [][NextKeys]_vars

\* cleanupCache has nothing to remove: the sweep that is due has run.
Swept == CleanupFrom(translationCache, 1, now) = translationCache

\* The texts stored and looked up while the clock runs.
ReadTexts == {"Hello", "Bye"}

\* Stores, lookups and the periodic sweep over time.  The page's setInterval
\* calls cleanupCache every 5 minutes, six times per maxAge; here a sweep is
\* due at every value of the clock, and the clock moves on when it has run.
NextRead ==
    \/ \E x \in ReadTexts, p \in CachePairs : CacheTranslation(x, "Hola", p.from, p.to)
    \/ \E x \in ReadTexts, p \in CachePairs : GetCachedTranslation(x, p.from, p.to)
    \/ Swept /\ Tick
    \/ CleanupCache

SpecRead == InitClient /\ [][NextRead]_vars

InitDebounce ==
    /\ server = "rooms"
    /\ now = 0
    /\ sockets = [c \in Conns |-> "new"]
    /\ joined = [c \in Conns |-> {}]
    /\ rooms = <<>>
    /\ userSessions = <<>>
    /\ tasks = [t \in 1..MaxTasks |-> IdleTask]
    /\ translated = {}
    /\ out = <<>>
    /\ call = IdleCall
    /\ translationCache = <<>>
    /\ maxCacheSize \in {MobileCacheSize, DesktopCacheSize}
    /\ timers = {}
    /\ returned = NoReturn
    /\ fetches = {}
    /\ wire = [c \in Conns |-> <<>>]
    /\ debounced \in {CreateDebouncedTranslation(d) : d \in Delays}
    /\ calls = <<>>
    /\ applied = <<>>

\* One debounced function, its calls and its timer.  A timer callback runs
\* when its timer is due, before the clock moves on; a call made at that
\* very time may run before it.  The cache plays no part.
NextDebounce ==
    \/ \E a \in DebounceArgs : DebouncedCall(a)
    \/ TimeoutFires
    \/ ~TimerDue /\ Tick

SpecDebounce == InitDebounce /\ [][NextDebounce]_vars

SpecChain == Init /\ [][NextChain]_vars

\* A request that carries a timeout is settled by it at the latest.  Nothing
\* makes a service answer.
SpecChainFair == SpecChain /\ WF_vars(ServiceTimesOut)

(* ------------------------------ claims --------------------------------- *)
Count(seq, x) == Cardinality({i \in 1..Len(seq) : seq[i] = x})

RelayTypes == {"live-translation", "new-message"}

\* The members of the room a handler's frame was started for.
MembersOf(tk) == MapKeys(GetRoomUsers(rooms, tk.roomId))

\* C1: a live-speech handler that has returned, with the membership of its
\* room untouched meanwhile, has emitted exactly one relay event to every
\* member of the room other than the sender and none to the sender.
C1_OneEventPerMember ==
    \A t \in DOMAIN tasks :
        (tasks[t].pc = "done" /\ tasks[t].kind = "live-speech" /\ tasks[t].stable)
        => /\ \A m \in MembersOf(tasks[t]) \ {tasks[t].socket} :
                  Count(tasks[t].sent, m) = 1
           /\ Count(tasks[t].sent, tasks[t].socket) = 0

\* C2: in the step in which every service of the chain has failed for a
\* connected recipient, that recipient is sent a live-translation event whose
\* translatedText is the original text and whose error is 'Translation failed'.
C2_FailureDegrades ==
    [][\A t \in 1..MaxTasks, a \in Answers :
          (/\ TranslationSettles(t, a)
           /\ ~TranslateWithFreeServices(a, tasks[t].text, tasks[t].from,
                                         tasks[t].target).ok
           /\ sockets[tasks[t].cur.id] = "open")
          => \E i \in 1..Len(out') :
                 /\ out'[i].to = tasks[t].cur.id
                 /\ out'[i].type = "live-translation"
                 /\ out'[i].originalText = tasks[t].text
                 /\ out'[i].translatedText = tasks[t].text
                 /\ out'[i].error = "Translation failed"]_vars

\* C3: on the `rooms` server no service is invoked for a recipient whose
\* registered language is the language of the sender's session, and such a
\* recipient has been sent its event when the live-speech handler returns.
C3_SameLanguagePassthrough ==
    \A t \in DOMAIN tasks :
        LET tk == tasks[t]
            same(m) == /\ m \in DOMAIN userSessions
                       /\ tk.socket \in DOMAIN userSessions
                       /\ userSessions[m].userLanguage
                              = userSessions[tk.socket].userLanguage
        IN  (server = "rooms" /\ tk.pc # "idle" /\ tk.kind = "live-speech" /\ tk.stable)
            => /\ tk.pc = "await" => ~same(tk.cur.id)
               /\ tk.pc = "done" =>
                      \A m \in MembersOf(tk) \ {tk.socket} :
                          same(m) => Count(tk.sent, m) = 1

\* A step of the handlers in flight that sends recipient b an event of the
\* utterance of slot t while the call slot t awaits stays pending.
EmitsWhilePending(t, b) ==
    /\ \E t2 \in 1..MaxTasks, a \in Answers : TranslationSettles(t2, a)
    /\ tasks'[t].pc = "await"
    /\ tasks'[t].cur = tasks[t].cur
    /\ tasks'[t].idx = tasks[t].idx
    /\ \E i \in 1..Len(out') :
           /\ out'[i].to = b
           /\ out'[i].type \in RelayTypes
           /\ out'[i].originalText = tasks[t].text
           /\ out'[i].speakerName = tasks[t].session.userName

\* The members the loop of slot t has still to visit behind the recipient it
\* is translating for.
Waiting(t) ==
    LET users == UsersOf(tasks[t])
    IN  {users[i].id : i \in (tasks[t].idx + 1)..Len(users)} \ {tasks[t].socket}

\* C4: while the call for one recipient is pending, the event of every
\* recipient that has not been served yet can be emitted.
C4_NoCrossRecipientWait ==
    \A t \in DOMAIN tasks :
        tasks[t].pc = "await"
        => \A b \in Waiting(t) : ENABLED EmitsWhilePending(t, b)

\* C5: no service is invoked for a text and language pair that a relay
\* translation has succeeded for before.
C5_ServedFromCache ==
    \A t \in DOMAIN tasks :
        tasks[t].pc = "await"
        => <<tasks[t].text, tasks[t].from, tasks[t].target>> \notin translated

\* C6: every room in the registry has at least one member.
C6_NoEmptyRoom ==
    \A r \in DOMAIN rooms : Len(rooms[r].users) >= 1

\* The sessions that name room r.
SessionsIn(r) == {c \in DOMAIN userSessions : userSessions[c].roomId = r}

\* C7: a connection is in the member map of room r exactly if its session
\* names r; a member map holds a connection once, and a connection is a
\* member of at most one room.
C7_MemberIffSession ==
    /\ \A r \in DOMAIN rooms :
           /\ MapKeys(rooms[r].users) = SessionsIn(r)
           /\ Len(rooms[r].users) = Cardinality(SessionsIn(r))
    /\ \A c \in DOMAIN userSessions :
           /\ userSessions[c].roomId \in DOMAIN rooms
           /\ MapHas(rooms[userSessions[c].roomId].users, c)
    /\ \A c \in Conns :
           Cardinality({r \in DOMAIN rooms : MapHas(rooms[r].users, c)}) <= 1

\* Two connections with sessions in one room, a third in another one.
C7_Witness ==
    \E r1, r2 \in DOMAIN rooms :
        /\ r1 # r2
        /\ Cardinality(SessionsIn(r1)) = 2
        /\ Cardinality(SessionsIn(r2)) = 1
        /\ Len(rooms[r1].users) = 2

\* The positions of the events of type ty in the log ev.
Positions(ev, ty) == {i \in 1..Len(ev) : ev[i].type = ty}

\* A join-room handler of either server has run for connection c.
JoinRoom(c, roomId, userName, userLanguage) ==
    \/ JoinRoomRooms(c, roomId, userName, userLanguage)
    \/ JoinRoomActive(c, roomId, userName, userLanguage)

\* C8: a join-room from a connection whose session is in another room a takes
\* it out of a, emits user-left to the members that remain in a before it
\* emits user-joined to the other members of the new room, emits no
\* user-joined to the joining connection, and deletes a if it became empty.
C8_SwitchLeavesFirst ==
    [][\A c \in Conns, roomId \in RoomIds, l \in Langs : \A n \in NamesOf(c) :
          (/\ JoinRoom(c, roomId, n, l)
           /\ c \in DOMAIN userSessions
           /\ userSessions[c].roomId # roomId)
          => LET a == userSessions[c].roomId
                 remaining == MapKeys(GetRoomUsers(rooms, a)) \ {c}
                 others == MapKeys(GetRoomUsers(rooms, roomId)) \ {c}
             IN  /\ ~MapHas(GetRoomUsers(rooms', a), c)
                 /\ remaining = {} => a \notin DOMAIN rooms'
                 /\ MapHas(GetRoomUsers(rooms', roomId), c)
                 /\ {out'[i].to : i \in Positions(out', "user-left")} = remaining
                 /\ {out'[i].to : i \in Positions(out', "user-joined")} = others
                 /\ \A i \in Positions(out', "user-left"),
                       j \in Positions(out', "user-joined") : i < j]_vars

\* C9: a join-room for the room the connection is already in leaves the set
\* of members and the room's createdAt as they are, gives the member the name
\* and language sent, and emits no user-left.
C9_RejoinOnlyUpdates ==
    [][\A c \in Conns, roomId \in RoomIds, l \in Langs : \A n \in NamesOf(c) :
          (/\ JoinRoom(c, roomId, n, l)
           /\ c \in DOMAIN userSessions
           /\ userSessions[c].roomId = roomId
           /\ roomId \in DOMAIN rooms)
          => /\ roomId \in DOMAIN rooms'
             /\ MapKeys(rooms'[roomId].users) = MapKeys(rooms[roomId].users)
             /\ rooms'[roomId].createdAt = rooms[roomId].createdAt
             /\ MapGet(rooms'[roomId].users, c).userName = n
             /\ MapGet(rooms'[roomId].users, c).userLanguage = l
             /\ Positions(out', "user-left") = {}]_vars

\* A disconnect handler of either server has run for connection c.
Disconnect(c) == DisconnectRooms(c) \/ DisconnectActive(c)

\* C10: a disconnect of a connection with a session removes the session and
\* the membership, emits user-left to exactly the members that remain in its
\* room, and deletes the room if none remains; a disconnect of a connection
\* without a session changes neither registry nor session table and emits
\* nothing.
C10_DisconnectLeaves ==
    [][\A c \in Conns :
          Disconnect(c)
          => IF c \in DOMAIN userSessions
             THEN LET r == userSessions[c].roomId
                      remaining == MapKeys(GetRoomUsers(rooms, r)) \ {c}
                  IN  /\ c \notin DOMAIN userSessions'
                      /\ \A q \in DOMAIN rooms' : ~MapHas(rooms'[q].users, c)
                      /\ (r \in DOMAIN rooms') = (remaining # {})
                      /\ remaining # {} => MapKeys(rooms'[r].users) = remaining
                      /\ \A q \in DOMAIN rooms \ {r} :
                             q \in DOMAIN rooms' /\ rooms'[q] = rooms[q]
                      /\ Len(out') = Cardinality(remaining)
                      /\ {out'[i].to : i \in 1..Len(out')} = remaining
                      /\ \A i \in 1..Len(out') :
                             /\ out'[i].type = "user-left"
                             /\ out'[i].userId = c
                             /\ out'[i].userName = userSessions[c].userName
             ELSE /\ rooms' = rooms
                  /\ userSessions' = userSessions
                  /\ out' = <<>>]_vars

\* A connection has disconnected from a room in which two members remain,
\* and both have been sent its user-left.
C10_Witness ==
    \E c \in Conns, r \in DOMAIN rooms :
        /\ sockets[c] = "closed"
        /\ Len(rooms[r].users) = 2
        /\ Len(out) = 2
        /\ \A i \in 1..Len(out) :
               /\ out[i].type = "user-left"
               /\ out[i].userId = c
               /\ MapHas(rooms[r].users, out[i].to)

\* C11: in every reachable state the language in a connection's session is
\* the language in its member record of the room registry, so that a
\* change-language is what later utterances are translated into.
C11_LanguagesAgree ==
    \A c \in DOMAIN userSessions : \A r \in DOMAIN rooms :
        MapHas(rooms[r].users, c)
        => MapGet(rooms[r].users, c).userLanguage = userSessions[c].userLanguage

\* A change-language handler of either server has run for connection c.
ChangeLanguage(c, language) ==
    ChangeLanguageRooms(c, language) \/ ChangeLanguageActive(c, language)

\* C12: a change-language from a connection with a session leaves the rooms,
\* the member set and member order of every room, the connection's roomId and
\* name, every other session and every other member record as they are, and
\* emits only user-language-changed events, only to the other members of the
\* connection's room; from a connection without a session it changes nothing
\* and emits nothing.
C12_ChangeLanguageFrame ==
    [][\A c \in Conns, l \in Langs :
          ChangeLanguage(c, l)
          => IF c \in DOMAIN userSessions
             THEN LET others == MapKeys(GetRoomUsers(rooms, userSessions[c].roomId))
                                    \ {c}
                  IN  /\ DOMAIN rooms' = DOMAIN rooms
                      /\ \A r \in DOMAIN rooms :
                             /\ Len(rooms'[r].users) = Len(rooms[r].users)
                             /\ \A i \in 1..Len(rooms[r].users) :
                                    /\ rooms'[r].users[i].id = rooms[r].users[i].id
                                    /\ rooms[r].users[i].id # c
                                       => rooms'[r].users[i] = rooms[r].users[i]
                      /\ DOMAIN userSessions' = DOMAIN userSessions
                      /\ userSessions'[c].roomId = userSessions[c].roomId
                      /\ userSessions'[c].userName = userSessions[c].userName
                      /\ \A d \in DOMAIN userSessions \ {c} :
                             userSessions'[d] = userSessions[d]
                      /\ \A i \in 1..Len(out') :
                             /\ out'[i].type = "user-language-changed"
                             /\ out'[i].userId = c
                             /\ out'[i].newLanguage = l
                             /\ out'[i].to \in others
             ELSE /\ rooms' = rooms
                  /\ userSessions' = userSessions
                  /\ out' = <<>>]_vars

\* A member of a room of two has changed its language and the other member
\* has been told, while a third connection is the member of another room.
C12_Witness ==
    \E r1, r2 \in DOMAIN rooms :
        /\ r1 # r2
        /\ Len(rooms[r1].users) = 2
        /\ Len(rooms[r2].users) = 1
        /\ Len(out) = 1
        /\ out[1].type = "user-language-changed"
        /\ MapHas(rooms[r1].users, out[1].to)
        /\ MapHas(rooms[r1].users, out[1].userId)
        /\ userSessions[out[1].userId].userLanguage = out[1].newLanguage

\* The ways a service ends that are failures: an error or a timeout.
Failures == {"throw", "timeout"}

\* C13: the services are invoked in the order LibreTranslate, MyMemory,
\* Lingva; a service is invoked only after every earlier one has ended
\* without a translation; the value returned is that of the first service
\* that gave one, and no service is invoked after it; the only error that
\* reaches the caller is 'All translation services failed'.
C13_FixedOrderFirstSuccess ==
    call.pc # "idle"
    => LET n == Len(call.invoked)
       IN  /\ n \in 1..NumServices
           /\ call.invoked = SubSeq(<<"LibreTranslate", "MyMemory", "Lingva">>, 1, n)
           /\ \A i \in 1..(n - 1) : call.outcomes[i] # "ok"
           /\ call.pc = "await" => Len(call.outcomes) = n - 1
           /\ call.pc = "returned"
              => /\ Len(call.outcomes) = n
                 /\ call.outcomes[n] = "ok"
                 /\ call.result = ProviderResult(n, call.text, call.sourceLang,
                                                 call.targetLang)
                 /\ call.error = Undefined
           /\ call.pc = "thrown"
              => /\ Len(call.outcomes) = NumServices
                 /\ \A i \in 1..NumServices : call.outcomes[i] # "ok"
                 /\ call.error = AllFailed
                 /\ call.result = Undefined

\* The call has returned the text of Lingva after LibreTranslate threw and
\* MyMemory gave a falsy value.
C13_Witness ==
    /\ call.pc = "returned"
    /\ call.invoked = <<"LibreTranslate", "MyMemory", "Lingva">>
    /\ call.outcomes = <<"throw", "empty", "ok">>

\* C14: the call throws exactly if every service of the chain has failed or
\* timed out; if one service completed without an error, whatever it
\* returned, the call does not throw.
C14_ThrowsIffAllFailed ==
    call.pc \in {"returned", "thrown"}
    => ((call.pc = "thrown")
        <=> \A i \in 1..Len(call.outcomes) : call.outcomes[i] \in Failures)

\* C15: a call of translateWithFreeServices that has been made completes,
\* with a result or with the failure, whether or not the services answer.
C15_CallCompletes ==
    (call.pc = "await") ~> (call.pc \in {"returned", "thrown"})

\* C16: the translation cache never holds more than maxCacheSize entries.
C16_CacheBounded ==
    Len(translationCache) <= maxCacheSize

\* C17: right after cleanupCache has run at time `now`, the cache holds no
\* entry created more than maxAge before `now`, and holds every entry that
\* was at most maxAge old, unchanged and in the same order, and nothing else.
C17_SweepRemovesExactlyOld ==
    [][CleanupCache
       => /\ \A j \in 1..Len(translationCache') :
                 now - translationCache'[j].timestamp <= maxAge
          /\ translationCache'
                 = SelectSeq(translationCache, LAMBDA e : now - e.timestamp <= maxAge)]_vars

\* A sweep on the desktop profile, after both preload timers have run, has
\* left one entry, which is exactly maxAge old: the older ones are gone.
C17_Witness ==
    /\ returned.method = "cleanupCache"
    /\ timers = {}
    /\ maxCacheSize = DesktopCacheSize
    /\ now = MaxTime
    /\ Len(translationCache) = 1
    /\ now - translationCache[1].timestamp = maxAge

\* C18: a getCachedTranslation that follows a getCachedTranslation for the
\* same text and pair, with no cacheTranslation and no cleanupCache between
\* them, returns what the first one returned: the same translatedText, or
\* null as before.
C18_LookupIdempotent ==
    [][\A x \in CacheTexts, p \in CachePairs :
          (/\ GetCachedTranslation(x, p.from, p.to)
           /\ returned.method = "getCachedTranslation"
           /\ returned.key = CacheKey(x, p.from, p.to))
          => /\ returned'.hit = returned.hit
             /\ returned'.translatedText = returned.translatedText]_vars

\* C19: right after cacheTranslation(text, v, src, dst), whatever the cache
\* held, getCachedTranslation(text, src, dst) returns an entry whose
\* translatedText is v, and the cache holds one entry for that key.
C19_StoreThenLookup ==
    [][\A x \in CacheTexts, v \in Translations, p \in CachePairs :
          CacheTranslation(x, v, p.from, p.to)
          => /\ Lookup(translationCache', x, p.from, p.to).hit
             /\ Lookup(translationCache', x, p.from, p.to).translatedText = v
             /\ Cardinality({i \in 1..Len(translationCache') :
                                translationCache'[i].id = CacheKey(x, p.from, p.to)})
                    = 1]_vars

\* Stores into a full cache on the mobile profile: both preloaded entries
\* have been pushed out by stores, and the entry stored last is served.
C19_Witness ==
    /\ returned.method = "cacheTranslation"
    /\ timers = {}
    /\ maxCacheSize = MobileCacheSize
    /\ Len(translationCache) = maxCacheSize
    /\ \A i \in 1..Len(translationCache) : translationCache[i].text = Undefined
    /\ translationCache[Len(translationCache)].id = returned.key
    /\ translationCache[Len(translationCache)].translatedText \in Translations

C21_NoEmptyText ==
    \A i \in 1..Len(translationCache) :
        /\ translationCache[i].originalText # ""
        /\ translationCache[i].id \notin
               {CacheKey("", p.from, p.to) : p \in CachePairs}

\* C22: getCachedTranslation on a present key adds exactly 1 to that entry's
\* hitCount, sets its lastAccessed to the time of the call and changes
\* nothing else: no other entry, no other property of the entry, not the
\* size and not the order of the cache.  On an absent key it returns null
\* and leaves the cache as it was.
C22_LookupFrame ==
    [][\A x \in CacheTexts, p \in CachePairs :
          GetCachedTranslation(x, p.from, p.to) =>
              LET i == MapIndex(translationCache, CacheKey(x, p.from, p.to))
                  e == translationCache[i]
              IN  IF i = 0
                  THEN ~returned'.hit /\ translationCache' = translationCache
                  ELSE /\ returned'.hit
                       /\ e.hitCount.is = "number"
                       /\ translationCache' =
                              [translationCache EXCEPT
                                  ![i] = [e EXCEPT
                                             !.hitCount = Num(e.hitCount.n + 1),
                                             !.lastAccessed = Num(now)]]]_vars

\* The events of `ev` that go to a connection other than c.
ToOthers(ev, c) == {i \in 1..Len(ev) : ev[i].to # c}

\* C23: a live-speech or conversation-message event from a connection that
\* has no session emits nothing to any other connection and changes neither
\* the room registry nor the session table.
C23_NoSessionNoEffect ==
    [][\A c \in Conns :
          /\ c \notin DOMAIN userSessions
          /\ \/ \E x \in Texts, l \in Langs : LiveSpeechRooms(c, x, l, FALSE)
             \/ \E x \in Texts : ConversationMessageRooms(c, x)
             \/ \E x \in Texts : LiveSpeechActive(c, x, FALSE)
             \/ \E x \in Texts : ConversationMessageActive(c, x)
          => /\ ToOthers(out', c) = {}
             /\ rooms' = rooms
             /\ userSessions' = userSessions
             /\ joined' = joined]_vars

\* A state an utterance of a connection without a session starts from and
\* leads to (the handler returns at once and the state is as before): the
\* sender is connected and has no session, two clients with different
\* languages are in a room, and nothing has been emitted.
C23_Witness ==
    /\ out = <<>>
    /\ \A t \in DOMAIN tasks : tasks[t].pc = "idle"
    /\ \E c \in Conns :
          /\ sockets[c] = "open"
          /\ c \notin DOMAIN userSessions
          /\ ENABLED (\/ LiveSpeechRooms(c, "Hello", "en", FALSE)
                      \/ LiveSpeechActive(c, "Hello", FALSE))
    /\ \E r \in DOMAIN rooms :
          \E i, j \in 1..Len(rooms[r].users) :
              rooms[r].users[i].userLanguage # rooms[r].users[j].userLanguage

\* C24: a live-speech event from a connection that has no session is
\* reported back to that sender: the step emits an error event to the sender
\* and no event to anybody else.
C24_NoSessionReported ==
    [][\A c \in Conns :
          /\ c \notin DOMAIN userSessions
          /\ \E x \in Texts, l \in Langs : LiveSpeechRooms(c, x, l, FALSE)
          => /\ \E i \in 1..Len(out') : out'[i].to = c /\ out'[i].type = "error"
             /\ ToOthers(out', c) = {}]_vars

\* C25: a room-info query for a room that is not in the registry is answered
\* with status 404, and a query for a room that is in the registry is
\* answered with userCount equal to the number of its current members.
C25_RoomInfo ==
    [][\A r \in RoomIds :
          GetRoomInfoRooms(r) \/ GetRoomInfoActive(r) =>
              /\ Len(out') = 1
              /\ IF r \notin DOMAIN rooms
                 THEN out'[1].status = 404
                 ELSE /\ out'[1].status = 200
                      /\ out'[1].userCount = Cardinality(MapKeys(rooms[r].users))]_vars

\* String.prototype.toUpperCase on the room identifiers of CaseRoomIds.
ToUpperCase(id) == IF id = "abc123" THEN "ABC123" ELSE id

\* C26: room identifiers are case-insensitive: two connections whose room
\* identifiers differ in letter case only are members of the same room of
\* the registry and of the same Socket.IO room, the one notifications and
\* utterances are sent to.
C26_CaseInsensitive ==
    \A c, d \in DOMAIN userSessions :
        ToUpperCase(userSessions[c].roomId) = ToUpperCase(userSessions[d].roomId)
        => /\ \E r \in DOMAIN rooms : {c, d} \subseteq MapKeys(rooms[r].users)
           /\ \E r \in CaseRoomIds : {c, d} \subseteq InRoom(joined, r)

\* C27: interim speech fragments are never relayed: the handler of a
\* live-speech event with isInterim = true emits no event to any member of
\* the room.
C27_InterimNotRelayed ==
    \A t \in DOMAIN tasks :
        tasks[t].pc # "idle" /\ tasks[t].kind = "live-speech" /\ tasks[t].isInterim
        => tasks[t].sent = <<>>

\* C28: the recipients of an utterance are fixed when the utterance is
\* handled: every event a live-speech handler emits goes to a connection that
\* was a member of the room when the handler started, so a connection that
\* joins while the fan-out awaits a provider receives nothing for it.
C28_SnapshotRecipients ==
    \A t \in DOMAIN tasks :
        tasks[t].pc # "idle" /\ tasks[t].kind = "live-speech"
        => \A i \in 1..Len(tasks[t].sent) : tasks[t].sent[i] \in tasks[t].snapshot

\* C29: each other member receives at most one relay event for one spoken
\* utterance of a page in a room.  The page emits 'live-speech' and then
\* 'conversation-message' for the utterance; when the server handles the
\* second message right after the handler of the first has returned, no
\* connection that received a relay event from the first handler receives
\* one from the second.
C29_AtMostOnce ==
    [][\A c \in Conns :
          ReceiveConversationMessage(c) /\ Head(wire[c]).messageType = "speech" =>
              \A t \in DOMAIN tasks :
                  /\ tasks[t].pc = "done"
                  /\ tasks[t].kind = "live-speech"
                  /\ tasks[t].socket = c
                  /\ tasks[t].text = Head(wire[c]).text
                  => \A i \in 1..Len(out') :
                        out'[i].type \in RelayTypes
                        => \A k \in 1..Len(tasks[t].sent) :
                              tasks[t].sent[k] # out'[i].to]_vars

\* The elements of a sequence.
Range(seq) == {seq[i] : i \in 1..Len(seq)}

\* C30: after any join-room, the step emits one room-joined event, to the
\* joining connection, whose users are exactly the members the room has after
\* the join (the joiner included), each with the name and language of its
\* entry, and it emits user-joined to exactly the other members of the room,
\* once each.
C30_JoinEvents ==
    [][\A c \in Conns, r \in RoomIds, l \in Langs :
          \A n \in NamesOf(c) :
              JoinRoom(c, r, n, l) =>
                  LET members == GetRoomUsers(rooms', r)
                      rj == {i \in 1..Len(out') : out'[i].type = "room-joined"}
                      uj == {i \in 1..Len(out') : out'[i].type = "user-joined"}
                  IN  /\ Cardinality(rj) = 1
                      /\ \A i \in rj :
                            /\ out'[i].to = c
                            /\ Len(out'[i].users) = Len(members)
                            /\ Range(out'[i].users) = Range(UserList(members))
                      /\ c \in MapKeys(members)
                      /\ {out'[i].to : i \in uj} = MapKeys(members) \ {c}
                      /\ Cardinality(uj) = Cardinality(MapKeys(members) \ {c})]_vars

\* C36: cacheTranslation for a key that is already in the cache only replaces
\* the entry of that key: the keys of the cache and its size are the same
\* after the call, also when the cache is at capacity.
C36_OverwriteKeepsOthers ==
    [][\A x \in CacheTexts, v \in Translations, p \in CachePairs :
          /\ CacheTranslation(x, v, p.from, p.to)
          /\ MapHas(translationCache, CacheKey(x, p.from, p.to))
          => /\ MapKeys(translationCache') = MapKeys(translationCache)
             /\ Len(translationCache') = Len(translationCache)]_vars

\* The translation an entry holds: translatedText in an entry of
\* cacheTranslation, translation in an entry of a preload timer.
StoredTranslation(e) ==
    IF e.translatedText # Undefined THEN e.translatedText ELSE e.translation

\* C37: whenever translateSingle answers from the cache, the translatedText it
\* returns is defined and is the translation stored for the key, and the
\* entry's hitCount was a number and is that number plus 1 afterwards; this
\* holds for entries of cacheTranslation and for entries of the preload
\* timers.
C37_CacheHitAnswer ==
    [][\A x \in RequestTexts, p \in CachePairs :
          /\ TranslateSingle(x, p.from, p.to)
          /\ MapHas(translationCache, CacheKey(x, p.from, p.to))
          => LET i == MapIndex(translationCache, CacheKey(x, p.from, p.to))
                 e == translationCache[i]
             IN  /\ returned'.method = "translateSingle"
                 /\ returned'.hit
                 /\ returned'.translatedText # Undefined
                 /\ returned'.translatedText = StoredTranslation(e)
                 /\ e.hitCount.is = "number"
                 /\ translationCache'[i].hitCount = Num(e.hitCount.n + 1)]_vars

\* C32: a cache entry exists only as the result of a successful translation
\* of its text and pair: every entry was built from a text and a pair that
\* were translated, and the translation it holds is a value a provider
\* returned (in the model the providers return the values of Translations).
C32_OnlyTranslations ==
    \A i \in 1..Len(translationCache) :
        /\ translationCache[i].originalText # Undefined
        /\ StoredTranslation(translationCache[i]) \in Translations

\* C33: distinct (text, sourceLang, targetLang) triples never share a cache
\* entry: a lookup that hits returns an entry that was stored for the text
\* and the languages of the lookup, also when the text or a language code
\* contains '_'.
C33_NoSharedEntry ==
    [][\A q \in KeyTriples :
          /\ GetCachedTranslation(q.text, q.sourceLang, q.targetLang)
          /\ returned'.hit
          => LET e == MapGet(translationCache,
                            CacheKey(q.text, q.sourceLang, q.targetLang))
             IN  /\ e.originalText = q.text
                 /\ e.sourceLang = q.sourceLang
                 /\ e.targetLang = q.targetLang]_vars

\* C38: getCachedTranslation never serves an entry that is older than the
\* TTL: a lookup that hits returns an entry whose timestamp is at most
\* maxAge in the past, also between two sweeps.
C38_NoStaleHit ==
    [][\A x \in ReadTexts, p \in CachePairs :
          GetCachedTranslation(x, p.from, p.to) /\ returned'.hit
          => ~Expired(MapGet(translationCache, CacheKey(x, p.from, p.to)), now)]_vars

\* C34: in every live-translation event that carries a translation, the
\* targetLanguage field names the language the translatedText was translated
\* into, also when the recipient changed its language while the provider
\* call was awaited: the text is what some service answers to the request
\* (originalText, sourceLanguage, targetLanguage).
C34_TargetLanguageOfText ==
    \A i \in 1..Len(out) :
        out[i].type = "live-translation" /\ out[i].error = Undefined
        => \E k \in 1..NumServices :
              out[i].translatedText =
                  ProviderResult(k, out[i].originalText, out[i].sourceLanguage,
                                 out[i].targetLanguage)

\* C35: a connection receives relay events only for the room it belongs to.
\* When the fan-out of an utterance spoken in room R goes on after a
\* provider call, every live-translation or new-message it emits goes to a
\* connection whose session is in R, also when a member left R for another
\* room while the call was awaited.
C35_OnlyCurrentRoom ==
    [][\A t \in 1..MaxTasks, a \in Answers :
          TranslationSettles(t, a)
          => \A i \in 1..Len(out') :
                out'[i].type \in RelayTypes
                => /\ out'[i].to \in DOMAIN userSessions
                   /\ userSessions[out'[i].to].roomId = tasks[t].roomId]_vars

NotificationTypes == {"user-joined", "user-left", "user-language-changed"}

\* The membership notifications among the events em that go to socket m, in
\* the order of emission.
Notifications(em, m) ==
    SelectSeq(em, LAMBDA ev : ev.to = m /\ ev.type \in NotificationTypes)

Kinds(em) == [i \in 1..Len(em) |-> em[i].type]

\* C31: within one room, user-joined, user-left and user-language-changed
\* reach each existing member in the order in which the operations were
\* applied to the registry.  The handlers run one after the other, and a
\* socket receives events in the order of emission; so it is enough that
\* every notification a handler emits belongs to an operation that this very
\* handler applies, and that a handler which applies two (a join that leaves
\* a room first) emits in the order it applies them.  In every step, what
\* a socket m receives is about one other member of m's room and is one of:
\* user-left (that member was in the room before the step, and is after it
\* only when a user-joined follows), user-joined (the member is in the room
\* after the step), user-left and then user-joined, or
\* user-language-changed (the member's language after the step is the one
\* announced); m's own session is untouched.
C31_NotificationOrder ==
    [][\A m \in Conns :
          LET ns == Notifications(out', m)
          IN  ns # <<>> =>
                /\ m \in DOMAIN userSessions
                /\ m \in DOMAIN userSessions'
                /\ userSessions'[m] = userSessions[m]
                /\ Kinds(ns) \in {<<"user-left">>, <<"user-joined">>,
                                  <<"user-left", "user-joined">>,
                                  <<"user-language-changed">>}
                /\ \A i \in 1..Len(ns) :
                      LET u == ns[i].userId
                          r == userSessions[m].roomId
                          before == MapKeys(GetRoomUsers(rooms, r))
                          after == MapKeys(GetRoomUsers(rooms', r))
                      IN  /\ u # m
                          /\ u = ns[1].userId
                          /\ ns[i].type = "user-left"
                               => u \in before /\ (u \in after => i < Len(ns))
                          /\ ns[i].type = "user-joined"
                               => /\ u \in after
                                  /\ u \in DOMAIN userSessions'
                                  /\ userSessions'[u].roomId = r
                          /\ ns[i].type = "user-language-changed"
                               => /\ u \in DOMAIN userSessions'
                                  /\ userSessions'[u].roomId = r
                                  /\ userSessions'[u].userLanguage = ns[i].newLanguage]_vars

\* A member of a room has just received user-left and then user-joined: a
\* member of its room joined the room again.
C31_Witness ==
    \E m \in Conns : Kinds(Notifications(out, m)) = <<"user-left", "user-joined">>

\* Call i of the debounced function ends a burst: no call follows it by
\* less than delay.
LastOfBurst(i) ==
    i = Len(calls) \/ calls[i + 1].at - calls[i].at >= debounced.delay

\* The burst that call i ends is over: a call of a later burst has been made,
\* or more than delay has passed.
BurstOver(i) ==
    /\ LastOfBurst(i)
    /\ i < Len(calls) \/ now > calls[i].at + debounced.delay

\* C39: for a function returned by createDebouncedTranslation(f, delay), a
\* burst of calls, each less than delay after the one before, leads to
\* exactly one call of f, made delay after the last call of the burst and
\* with that call's arguments; f is never called for a superseded call.
C39_OncePerBurst ==
    /\ \A k \in 1..Len(applied) :
          LET i == applied[k].call
          IN  /\ LastOfBurst(i)
              /\ applied[k].args = calls[i].args
              /\ applied[k].at = calls[i].at + debounced.delay
    /\ \A i \in 1..Len(calls) :
          BurstOver(i) => Cardinality({k \in 1..Len(applied) : applied[k].call = i}) = 1
====
